---- MODULE Spec2Model ----
(***************************************************************************)
(* A model of the sheet rendering engine (lib/view/sheet/render) and of    *)
(* the feature detection, the license-data computation, the stop-writes   *)
(* test and the histogram outputs of lib/utils/common.py of               *)
(* aerospike-admin.                                                        *)
(*                                                                         *)
(* Strings that the code inspects character by character (field keys) are  *)
(* sequences of one-character strings; every other name is a string.       *)
(***************************************************************************)
EXTENDS Integers, Sequences, FiniteSets, TLC

\* ------------------------------------------------------------------ bounds

\* The largest number of row keys a source holds.
MaxRows == 3

\* Projected values are the integers 1..MaxVal.
MaxVal == 2

\* The largest number of nodes in the statistics given to the feature functions.
MaxNodes == 2

\* The largest number of hosts that report the namespace "test".
MaxHosts == 2

\* The largest number of entries in the response of the unique-data agent.
MaxEntries == 2

\* Usages and thresholds of the stop-writes test are in 0..MaxMetric.
MaxMetric == 3

\* The largest number of buckets of a histogram, and the largest count of one.
MaxBuckets == 3

MaxCount == 7

\* The number of buckets of a byte-distribution histogram, and the largest
\* bucket_count asked for.
MaxByteBuckets == 5

MaxBucketCount == 3

\* The number of columns of a row sheet and the width of a column.
MaxColumns == 4

MaxWidth == 3

\* The width of the terminal.
MaxTerminal == 9

\* The largest number of calls of result() on one Future.
MaxCalls == 2

VARIABLES
    decl,       \* the decl.sheet being rendered (BaseRSheet.decl)
    sources,    \* the sources argument: source name -> row key -> raw value
    status,     \* "new" before BaseRSheet.__init__, then "built" or "raised"
    rsheet,     \* the fields of the BaseRSheet object after __init__
    prev,       \* the rsheet of the previous build of the same inputs
    builds      \* the number of builds made of these inputs

sheetVars == <<decl, sources, status, rsheet, prev, builds>>

VARIABLES
    stats,      \* the arguments of the feature functions of common.py
    nodewise,   \* what find_nodewise_features returned
    cluster,    \* what _find_features_for_cluster returned
    called      \* the feature functions that have returned

featureVars == <<stats, nodewise, cluster, called>>

VARIABLES
    args,       \* the arguments of the calls of the functions of common.py
    ret         \* function name -> what the call of that function gave

callVars == <<args, ret>>

VARIABLES
    obj,        \* the fields of the object a handler or a thread works on
    pc,         \* the position of each thread, or of the handler, in its code
    requests    \* the requests sent to the cluster and the prompts, in order

procVars == <<obj, pc, requests>>

vars == <<sheetVars, featureVars, callVars, procVars>>

\* --------------------------------------------------------- generic helpers

RECURSIVE Flatten(_)
Flatten(seqs) ==
    IF seqs = <<>> THEN <<>> ELSE Head(seqs) \o Flatten(Tail(seqs))

Remove(seq, ix) == SubSeq(seq, 1, ix - 1) \o SubSeq(seq, ix + 1, Len(seq))

Reverse(seq) == [i \in 1..Len(seq) |-> seq[Len(seq) + 1 - i]]

Range(seq) == {seq[i] : i \in DOMAIN seq}

\* All the orders in which the elements of a finite set can be iterated.
Orders(S) ==
    {f \in [1..Cardinality(S) -> S] : \A i, j \in 1..Cardinality(S) : f[i] = f[j] => i = j}

\* ------------------------------------------------ render_utils sentinels

Value(n) == [tag |-> "Value", v |-> n]
NoEntry == [tag |-> "NoEntry", v |-> 0]
ErrorEntry == [tag |-> "ErrorEntry", v |-> 0]
None == [tag |-> "None", v |-> 0]

\* ------------------------------------------------------ raw source values

\* What a projector does with a raw value: return v, or raise.
Returns(n) == [o |-> "Value", v |-> n]
Raises(exc) == [o |-> exc, v |-> 0]

\* A raw value that is no mapping (it has no iteritems).
Scalar(out) == [tag |-> "scalar", out |-> out, k |-> "", items |-> <<>>]
\* A raw mapping, as the sequence of its items in iteration order.
Mapping(items) ==
    [tag |-> "map", out |-> Raises("ErrorEntryException"), k |-> "", items |-> items]
\* One (sub_key, sub_value) item of a mapping, bound by the for_each expansion.
Item(it) == [tag |-> "item", out |-> it.out, k |-> it.k, items |-> <<>>]
\* The ErrorEntry class bound by the for_each expansion.
ErrorEntrySource ==
    [tag |-> "ErrorEntry", out |-> Raises("ErrorEntryException"), k |-> "", items |-> <<>>]

\* ---------------------------------------------------- BaseRSheet._init_sources

SourceKeys(srcs) == UNION {DOMAIN srcs[s] : s \in DOMAIN srcs}

\* value[row_key] raises KeyError when a source lacks a row key of the union.
SourcesKeyError(srcs) ==
    \E row_key \in SourceKeys(srcs) : \E s \in DOMAIN srcs : row_key \notin DOMAIN srcs[s]

ConvertedSources(srcs, keyOrder) ==
    [i \in 1..Len(keyOrder) |-> [s \in DOMAIN srcs |-> srcs[s][keyOrder[i]]]]

\* Mutant of ExpandForEach: a value that is not a mapping gives no record.
ExpandForEachSkipsErrors(source, for_each) ==
    LET sub_source == source[for_each]
    IN  IF sub_source.tag = "map"
        THEN [j \in 1..Len(sub_source.items) |->
                 [source EXCEPT ![for_each] = Item(sub_source.items[j])]]
        ELSE <<>>

ExpandForEach(source, for_each) ==
    LET sub_source == source[for_each]
    IN  IF sub_source.tag = "map"
        THEN [j \in 1..Len(sub_source.items) |->
                 [source EXCEPT ![for_each] = Item(sub_source.items[j])]]
        ELSE << [source EXCEPT ![for_each] = ErrorEntrySource] >>

ExpandSource(source, for_eachs) ==
    IF for_eachs = <<>>
    THEN << source >>
    ELSE Flatten([i \in 1..Len(for_eachs) |-> ExpandForEach(source, for_eachs[i])])

ExpandedSources(converted, for_eachs) ==
    Flatten([i \in 1..Len(converted) |-> ExpandSource(converted[i], for_eachs)])

\* Mutant of InitSources: n_records counts the records before the expansion.
InitSourcesCountsConverted(d, srcs, keyOrder) ==
    IF SourcesKeyError(srcs)
    THEN [raised |-> "KeyError", sources |-> <<>>, n_records |-> 0]
    ELSE LET expanded == ExpandedSources(ConvertedSources(srcs, keyOrder), d.for_each)
         IN  [raised |-> "None", sources |-> expanded, n_records |-> Len(keyOrder)]

\* keyOrder is the order in which the set source_keys is iterated.
InitSources(d, srcs, keyOrder) ==
    IF SourcesKeyError(srcs)
    THEN [raised |-> "KeyError", sources |-> <<>>, n_records |-> 0]
    ELSE LET expanded == ExpandedSources(ConvertedSources(srcs, keyOrder), d.for_each)
         IN  [raised |-> "None", sources |-> expanded, n_records |-> Len(expanded)]

\* ------------------------------------------------- BaseRSheet.project_fields

Projector(dfield, source) ==
    LET raw == source[dfield.source]
    IN  IF raw.tag = "ErrorEntry" THEN Raises("ErrorEntryException") ELSE raw.out

ProjectField(dfield, source) ==
    LET out == Projector(dfield, source)
    IN  CASE out.o = "Value" -> [raised |-> "None", entry |-> Value(out.v)]
          [] out.o = "NoEntryException" -> [raised |-> "None", entry |-> NoEntry]
          [] out.o = "ErrorEntryException" -> [raised |-> "None", entry |-> ErrorEntry]
          [] OTHER -> [raised |-> out.o, entry |-> None]

FieldKeys(d) == {d.fields[i].key : i \in DOMAIN d.fields}

FieldOf(d, key) == d.fields[CHOOSE i \in DOMAIN d.fields : d.fields[i].key = key]

ProjectFields(d, srcs) ==
    LET cells == [i \in 1..Len(srcs) |->
                     [key \in FieldKeys(d) |-> ProjectField(FieldOf(d, key), srcs[i])]]
        faults == {cells[i][key].raised : i \in 1..Len(srcs), key \in FieldKeys(d)} \ {"None"}
    IN  IF faults # {}
        THEN [raised |-> CHOOSE e \in faults : TRUE, projections |-> <<>>]
        ELSE [raised |-> "None",
              projections |-> [i \in 1..Len(srcs) |->
                                  [key \in FieldKeys(d) |-> cells[i][key].entry]]]

\* ----------------------------------------------------------- BaseRSheet.where

\* The where callables of the modelled declarations, applied to one projection.
WhereFn(name, projection) ==
    CASE name = "c_is_value" -> projection[<<"c">>].tag = "Value"
      [] name = "c_is_1" -> projection[<<"c">>] = Value(1)
      [] OTHER -> TRUE

\* for record_ix in xrange(len(projections) - 1, -1, -1): del the failing ones.
RECURSIVE WhereLoop(_, _, _)
WhereLoop(name, projections, record_ix) ==
    IF record_ix < 1
    THEN projections
    ELSE WhereLoop(name,
                   IF ~WhereFn(name, projections[record_ix])
                   THEN Remove(projections, record_ix)
                   ELSE projections,
                   record_ix - 1)

\* Mutant of Where: the loop starts one record short of the last.
WhereSkipsLast(d, projections) ==
    IF d.where # "None"
    THEN WhereLoop(d.where, projections, Len(projections) - 1)
    ELSE projections

Where(d, projections) ==
    IF d.where # "None"
    THEN WhereLoop(d.where, projections, Len(projections))
    ELSE projections

\* ------------------------------------------------- sorted, groupby, OrderedDict

\* Python 2 ordering of projected entries: numbers by value, and before any
\* other object.
EntryLess(x, y) ==
    CASE x.tag = "Value" /\ y.tag = "Value" -> x.v < y.v
      [] x.tag = "Value" /\ y.tag # "Value" -> TRUE
      [] OTHER -> FALSE

\* Insert a record behind every record of a sorted sequence that is not
\* greater: sort() and sorted() are stable.
InsertSorted(sorted, rec, key) ==
    LET n == Cardinality({i \in 1..Len(sorted) : ~EntryLess(rec[key], sorted[i][key])})
    IN  SubSeq(sorted, 1, n) \o << rec >> \o SubSeq(sorted, n + 1, Len(sorted))

RECURSIVE SortedFrom(_, _, _)
SortedFrom(acc, seq, key) ==
    IF seq = <<>> THEN acc ELSE SortedFrom(InsertSorted(acc, Head(seq), key), Tail(seq), key)

Sorted(seq, key) == SortedFrom(<<>>, seq, key)

\* itertools.groupby: the maximal runs of consecutive records with equal keys.
RECURSIVE GroupByFrom(_, _, _)
GroupByFrom(acc, seq, key) ==
    IF seq = <<>>
    THEN acc
    ELSE LET rec == Head(seq)
             n == Len(acc)
         IN  IF n > 0 /\ acc[n].ckey = rec[key]
             THEN GroupByFrom([acc EXCEPT ![n].cgroup = Append(@, rec)], Tail(seq), key)
             ELSE GroupByFrom(Append(acc, [ckey |-> rec[key], cgroup |-> << rec >>]),
                              Tail(seq), key)

GroupBy(seq, key) == GroupByFrom(<<>>, seq, key)

\* OrderedDict(pairs): a repeated key keeps its first position and takes the
\* last value.
RECURSIVE OrderedDictFrom(_, _)
OrderedDictFrom(acc, pairs) ==
    IF pairs = <<>>
    THEN acc
    ELSE LET p == Head(pairs)
             at == {i \in 1..Len(acc) : acc[i].key = p.key}
         IN  IF at = {}
             THEN OrderedDictFrom(Append(acc, p), Tail(pairs))
             ELSE OrderedDictFrom([acc EXCEPT ![CHOOSE i \in at : TRUE] = p], Tail(pairs))

OrderedDict(pairs) == OrderedDictFrom(<<>>, pairs)

\* ------------------------------------------------ BaseRSheet.group_by_fields

\* Mutant of NextGrouping: groupby over the records as they come, unsorted.
NextGroupingUnsorted(grouping, group_by) ==
    Flatten([g \in 1..Len(grouping) |->
        LET cgroups == GroupBy(grouping[g].group, group_by)
        IN  [c \in 1..Len(cgroups) |->
                [key |-> Append(grouping[g].key, cgroups[c].ckey),
                 group |-> cgroups[c].cgroup]]])

\* One pass of the loop over group_bys: every group is sorted by the key and
\* split into the runs of equal key values.
NextGrouping(grouping, group_by) ==
    Flatten([g \in 1..Len(grouping) |->
        LET pgroup_sort == Sorted(grouping[g].group, group_by)
            cgroups == GroupBy(pgroup_sort, group_by)
        IN  [c \in 1..Len(cgroups) |->
                [key |-> Append(grouping[g].key, cgroups[c].ckey),
                 group |-> cgroups[c].cgroup]]])

RECURSIVE GroupingLoop(_, _)
GroupingLoop(grouping, group_bys) ==
    IF group_bys = <<>>
    THEN grouping
    ELSE GroupingLoop(NextGrouping(grouping, Head(group_bys)), Tail(group_bys))

\* A group_bys given as one string is the tuple of that string.
GroupByFields(d, projections) ==
    LET grouping == << [key |-> <<>>, group |-> projections] >>
    IN  IF d.group_bys.kind = "None"
        THEN OrderedDict(grouping)
        ELSE OrderedDict(GroupingLoop(grouping, d.group_bys.keys))

\* ------------------------------------------------ BaseRSheet.order_by_fields

RECURSIVE SortByEach(_, _)
SortByEach(group, order_bys) ==
    IF order_bys = <<>>
    THEN group
    ELSE SortByEach(Sorted(group, Head(order_bys)), Tail(order_bys))

\* Mutant of OrderGroup: the sorts are applied in the declared order.
OrderGroupDeclaredOrder(group, order_bys) == SortByEach(group, order_bys)

\* for order_by in order_bys[::-1]: projections_group.sort(key=itemgetter(order_by))
OrderGroup(group, order_bys) == SortByEach(group, Reverse(order_bys))

OrderByFields(d, projections_groups) ==
    IF d.order_bys.kind = "None"
    THEN projections_groups
    ELSE [g \in 1..Len(projections_groups) |->
             [projections_groups[g] EXCEPT !.group = OrderGroup(@, d.order_bys.keys)]]

\* ----------------------------------------------------------------- BaseRField

\* key in s, for the strings key and s.
IsSubstring(key, s) ==
    \E i \in 0..(Len(s) - Len(key)) : SubSeq(s, i + 1, i + Len(key)) = key

\* self.decl.key in bys, guarded by the truth value of bys.
KeyIn(key, bys) ==
    CASE bys.kind = "None" -> FALSE
      [] bys.kind = "str" -> bys.keys[1] # <<>> /\ IsSubstring(key, bys.keys[1])
      [] OTHER -> \E i \in DOMAIN bys.keys : bys.keys[i] = key

LoadGroups(dfield, raw_groups) ==
    [g \in 1..Len(raw_groups) |->
        [i \in 1..Len(raw_groups[g]) |-> raw_groups[g][i][dfield.key]]]

\* Mutant of Hidden: an ErrorEntry counts as a NoEntry.
HiddenIgnoresErrors(dfield, groups) ==
    IF dfield.hidden = "None"
    THEN ~(\E g \in DOMAIN groups : \E i \in DOMAIN groups[g] : groups[g][i].tag = "Value")
    ELSE dfield.hidden = "True"

Hidden(dfield, groups) ==
    IF dfield.hidden = "None"
    THEN ~(\E g \in DOMAIN groups : \E i \in DOMAIN groups[g] : groups[g][i] # NoEntry)
    ELSE dfield.hidden = "True"

RECURSIVE SumOf(_)
SumOf(entries) == IF entries = <<>> THEN 0 ELSE Head(entries).v + SumOf(Tail(entries))

\* render_utils.Aggregator(aggregator, values).result
AggregatorResult(aggregator, values) ==
    IF values = <<>> THEN None ELSE Value(SumOf(values))

\* str() of an integer value.
Str(entry) == ToString(entry.v)

\* Mutant of InitAggregateGroup: an ErrorEntry is skipped like a NoEntry.
InitAggregateGroupSkipsErrors(d, dfield, hidden, is_grouped_by, group) ==
    IF hidden \/ dfield.aggregator = "None"
    THEN [aggregate |-> None, converted |-> << "" >>]
    ELSE LET group_entries == SelectSeq(group, LAMBDA e : e.tag = "Value")
             aggregate_value == AggregatorResult(dfield.aggregator, group_entries)
         IN  [aggregate |-> IF aggregate_value = None THEN NoEntry ELSE aggregate_value,
              converted |-> <<>>]

\* One call of _init_aggregate_group: the value appended to aggregates and
\* what is appended to aggregates_converted.
InitAggregateGroup(d, dfield, hidden, is_grouped_by, group) ==
    IF hidden
    THEN [aggregate |-> None, converted |-> << "" >>]
    ELSE IF dfield.aggregator = "None"
    THEN IF is_grouped_by /\ d.has_aggregates
         THEN [aggregate |-> group[1],
               converted |-> << CASE group[1] = ErrorEntry -> d.error_entry
                                  [] group[1] = NoEntry -> d.no_entry
                                  [] OTHER -> Str(group[1]) >>]
         ELSE [aggregate |-> None, converted |-> << "" >>]
    ELSE IF \E i \in DOMAIN group : group[i] = ErrorEntry
    THEN [aggregate |-> ErrorEntry, converted |-> <<>>]
    ELSE LET group_entries == SelectSeq(group, LAMBDA e : e # NoEntry)
             aggregate_value == AggregatorResult(dfield.aggregator, group_entries)
         IN  [aggregate |-> IF aggregate_value = None THEN NoEntry ELSE aggregate_value,
              converted |-> <<>>]

\* Mutant of InitRField: a hidden field is given no aggregates.
InitRFieldHiddenUnaggregated(d, dfield, raw_groups) ==
    LET is_grouped_by == KeyIn(dfield.key, d.group_bys)
        is_ordered_by == KeyIn(dfield.key, d.order_bys)
        groups == LoadGroups(dfield, raw_groups)
        hidden == Hidden(dfield, groups)
        aggrs == [g \in 1..(IF hidden THEN 0 ELSE Len(groups)) |->
                     InitAggregateGroup(d, dfield, hidden, is_grouped_by, groups[g])]
    IN  [key |-> dfield.key,
         n_groups |-> Len(raw_groups),
         is_grouped_by |-> is_grouped_by,
         is_ordered_by |-> is_ordered_by,
         groups |-> groups,
         groups_converted |-> <<>>,
         hidden |-> hidden,
         aggregates |-> [g \in DOMAIN aggrs |-> aggrs[g].aggregate],
         aggregates_converted |-> Flatten([g \in DOMAIN aggrs |-> aggrs[g].converted])]

\* BaseRField.__init__ with _init_as_field.
InitRField(d, dfield, raw_groups) ==
    LET is_grouped_by == KeyIn(dfield.key, d.group_bys)
        is_ordered_by == KeyIn(dfield.key, d.order_bys)
        groups == LoadGroups(dfield, raw_groups)
        hidden == Hidden(dfield, groups)
        aggrs == [g \in 1..Len(groups) |->
                     InitAggregateGroup(d, dfield, hidden, is_grouped_by, groups[g])]
    IN  [key |-> dfield.key,
         n_groups |-> Len(raw_groups),
         is_grouped_by |-> is_grouped_by,
         is_ordered_by |-> is_ordered_by,
         groups |-> groups,
         groups_converted |-> <<>>,
         hidden |-> hidden,
         aggregates |-> [g \in 1..Len(groups) |-> aggrs[g].aggregate],
         aggregates_converted |-> Flatten([g \in 1..Len(groups) |-> aggrs[g].converted])]

CreateRFields(d, projections_groups) ==
    LET groups == [g \in 1..Len(projections_groups) |-> projections_groups[g].group]
    IN  [f \in 1..Len(d.fields) |-> InitRField(d, d.fields[f], groups)]

PrepareConvertGroups(d, rfield) ==
    [g \in 1..Len(rfield.groups) |->
        [i \in 1..Len(rfield.groups[g]) |->
            LET e == rfield.groups[g][i]
            IN  CASE e = ErrorEntry -> d.error_entry
                  [] e = NoEntry -> d.no_entry
                  [] OTHER -> Str(e)]]

PrepareConvertAggregates(d, dfield, rfield) ==
    IF dfield.aggregator = "None"
    THEN rfield.aggregates_converted
    ELSE [g \in 1..Len(rfield.aggregates) |->
             LET aggregate == rfield.aggregates[g]
             IN  CASE aggregate = None -> ""
                   [] aggregate = NoEntry -> d.no_entry
                   [] aggregate = ErrorEntry -> d.error_entry
                   [] OTHER -> Str(aggregate)]

\* BaseRField.prepare
PrepareRField(d, dfield, rfield) ==
    IF rfield.hidden
    THEN rfield
    ELSE [rfield EXCEPT !.groups_converted = PrepareConvertGroups(d, rfield),
                        !.aggregates_converted = PrepareConvertAggregates(d, dfield, rfield)]

\* ------------------------------------------------------- BaseRSheet.__init__

NoSheet ==
    [raised |-> "None", sources |-> <<>>, n_records |-> 0, projected |-> <<>>,
     filtered |-> <<>>, grouped |-> <<>>, projections_groups |-> <<>>,
     rfields |-> <<>>, visible_rfields |-> <<>>]

\* The object that __init__ leaves behind when the row keys are iterated in
\* keyOrder.  projected, filtered and grouped record the values the local
\* variable projections and projections_groups went through.
Construct(d, srcs, keyOrder) ==
    LET init == InitSources(d, srcs, keyOrder)
        proj == ProjectFields(d, init.sources)
        filtered == Where(d, proj.projections)
        grouped == GroupByFields(d, filtered)
        ordered == OrderByFields(d, grouped)
        created == CreateRFields(d, ordered)
        visible == SelectSeq(created, LAMBDA rfield : ~rfield.hidden)
        prepared == [f \in 1..Len(created) |-> PrepareRField(d, d.fields[f], created[f])]
    IN  IF init.raised # "None"
        THEN [NoSheet EXCEPT !.raised = init.raised]
        ELSE IF proj.raised # "None"
        THEN [NoSheet EXCEPT !.raised = proj.raised,
                             !.sources = init.sources, !.n_records = init.n_records]
        ELSE [raised |-> "None",
              sources |-> init.sources,
              n_records |-> init.n_records,
              projected |-> proj.projections,
              filtered |-> filtered,
              grouped |-> grouped,
              projections_groups |-> ordered,
              rfields |-> prepared,
              visible_rfields |-> [i \in 1..Len(visible) |-> visible[i].key]]

\* BaseRSheet(sheet, title, sources, common)
Build ==
    /\ status = "new"
    /\ \E keyOrder \in Orders(SourceKeys(sources)) :
           rsheet' = Construct(decl, sources, keyOrder)
    /\ status' = IF rsheet'.raised = "None" THEN "built" ELSE "raised"
    /\ builds' = builds + 1
    /\ UNCHANGED <<decl, sources, prev, featureVars, callVars, procVars>>

\* A second BaseRSheet(...) of the same declaration over the same sources.
Rebuild ==
    /\ status = "built"
    /\ builds = 1
    /\ \E keyOrder \in Orders(SourceKeys(sources)) :
           rsheet' = Construct(decl, sources, keyOrder)
    /\ prev' = rsheet
    /\ builds' = builds + 1
    /\ UNCHANGED <<decl, sources, status, featureVars, callVars, procVars>>

\* ------------------------------------------------- Python values (features)

PyNone == [t |-> "none", i |-> 0, s |-> "", d |-> <<>>]
PyInt(n) == [t |-> "int", i |-> n, s |-> "", d |-> <<>>]
PyStr(str) == [t |-> "str", i |-> 0, s |-> str, d |-> <<>>]
PyDict(fn) == [t |-> "dict", i |-> 0, s |-> "", d |-> fn]
\* An Exception object, as the client leaves one in place of a failed reply.
PyExc == [t |-> "exc", i |-> 0, s |-> "", d |-> <<>>]

\* bool(x) for the values above.
PyBool(b) == [t |-> "bool", i |-> IF b THEN 1 ELSE 0, s |-> "", d |-> <<>>]

\* A list: d holds the elements in order.
PyList(seq) == [t |-> "list", i |-> 0, s |-> "", d |-> seq]

\* The float num / den, den > 0.
PyFloat(num, den) == [t |-> "float", i |-> num, s |-> "", d |-> <<den>>]

Truthy(x) ==
    CASE x.t = "none" -> FALSE
      [] x.t \in {"int", "bool", "float"} -> x.i # 0
      [] x.t = "str" -> x.s # ""
      [] x.t = "dict" -> DOMAIN x.d # {}
      [] OTHER -> TRUE

\* The integers whose decimal form the modelled strings may hold.
Parsable == 0..9

\* return_type(val): the converted value, or failed when the conversion raises.
Convert(return_type, val) ==
    CASE return_type = "int" ->
            IF val.t = "int"
            THEN [failed |-> FALSE, val |-> val]
            ELSE IF val.t = "str" /\ \E n \in Parsable : ToString(n) = val.s
            THEN [failed |-> FALSE,
                  val |-> PyInt(CHOOSE n \in Parsable : ToString(n) = val.s)]
            ELSE [failed |-> TRUE, val |-> PyNone]
      [] return_type = "str" ->
            IF val.t = "int"
            THEN [failed |-> FALSE, val |-> PyStr(ToString(val.i))]
            ELSE IF val.t = "str"
            THEN [failed |-> FALSE, val |-> val]
            ELSE [failed |-> FALSE, val |-> PyStr("<object>")]
      [] return_type = "float" ->
            IF val.t = "float"
            THEN [failed |-> FALSE, val |-> val]
            ELSE IF val.t = "int"
            THEN [failed |-> FALSE, val |-> PyFloat(val.i, 1)]
            ELSE IF val.t = "str" /\ \E n \in Parsable : ToString(n) = val.s
            THEN [failed |-> FALSE,
                  val |-> PyFloat(CHOOSE n \in Parsable : ToString(n) = val.s, 1)]
            ELSE IF val.t = "str" /\ val.s = "0.5"
            THEN [failed |-> FALSE, val |-> PyFloat(1, 2)]
            ELSE [failed |-> TRUE, val |-> PyNone]
      [] return_type = "dict" ->
            IF val.t = "dict"
            THEN [failed |-> FALSE, val |-> val]
            ELSE [failed |-> TRUE, val |-> PyNone]
      [] OTHER -> [failed |-> FALSE, val |-> val]

\* util.get_value_from_dict for one key and the return types int, str, dict.
GetValueFromDict(d, key, default_value, return_type) ==
    IF key \in DOMAIN d.d
    THEN LET val == d.d[key]
         IN  IF val.t # "none" /\ ~Convert(return_type, val).failed
             THEN Convert(return_type, val).val
             ELSE default_value
    ELSE default_value

\* util.get_value_from_dict for a tuple of keys: the first key that is in d
\* decides.
RECURSIVE GetValueFromDictKeys(_, _, _, _)
GetValueFromDictKeys(d, keys, default_value, return_type) ==
    IF keys = <<>>
    THEN default_value
    ELSE IF Head(keys) \in DOMAIN d.d
    THEN GetValueFromDict(d, Head(keys), default_value, return_type)
    ELSE GetValueFromDictKeys(d, Tail(keys), default_value, return_type)

\* util.deep_merge_dicts(dict_to, dict_from)
RECURSIVE DeepMergeDicts(_, _)
DeepMergeDicts(dict_to, dict_from) ==
    IF ~Truthy(dict_to) /\ ~Truthy(dict_from) THEN dict_to
    ELSE IF ~Truthy(dict_to) THEN dict_from
    ELSE IF dict_to.t # "dict" THEN dict_to
    ELSE IF ~Truthy(dict_from) \/ dict_from.t # "dict" THEN dict_to
    ELSE PyDict([k \in DOMAIN dict_to.d \cup DOMAIN dict_from.d |->
                    IF k \notin DOMAIN dict_to.d THEN dict_from.d[k]
                    ELSE IF k \notin DOMAIN dict_from.d THEN dict_to.d[k]
                    ELSE DeepMergeDicts(dict_to.d[k], dict_from.d[k])])

\* ----------------------------------------------------------- common.py checks

\* comp_ops and operator.gt
CompOp(op, x, y) ==
    CASE op = ">" -> x.i > y.i
      [] op = "<" -> x.i < y.i
      [] op = ">=" -> x.i >= y.i
      [] op = "<=" -> x.i <= y.i
      [] op = "!=" -> x # y
      [] OTHER -> x = y

\* Mutant of CheckKeys: a key that is not there counts as a value above zero.
RECURSIVE CheckKeysMissingPasses(_, _, _, _)
CheckKeysMissingPasses(data, keys, op, value) ==
    IF keys = <<>>
    THEN FALSE
    ELSE LET dv == IF value.t = "str" THEN PyNone ELSE PyInt(1)
             type_check == IF value.t = "str" THEN "str" ELSE "int"
             fetched_value == GetValueFromDict(data, Head(keys), dv, type_check)
         IN  IF fetched_value # PyNone /\ CompOp(op, fetched_value, value)
             THEN TRUE
             ELSE CheckKeysMissingPasses(data, Tail(keys), op, value)

\* The loop of _check_value over the keys.
RECURSIVE CheckKeys(_, _, _, _)
CheckKeys(data, keys, op, value) ==
    IF keys = <<>>
    THEN FALSE
    ELSE LET dv == IF value.t = "str" THEN PyNone ELSE PyInt(0)
             type_check == IF value.t = "str" THEN "str" ELSE "int"
             fetched_value == GetValueFromDict(data, Head(keys), dv, type_check)
         IN  IF fetched_value # PyNone /\ CompOp(op, fetched_value, value)
             THEN TRUE
             ELSE CheckKeys(data, Tail(keys), op, value)

CheckValue(data, keys, op, value) ==
    IF keys = <<>> THEN TRUE
    ELSE IF ~Truthy(data) THEN FALSE
    ELSE CheckKeys(data, keys, op, value)

CheckFeatureByKeys(service_data, service_keys, op, value) ==
    /\ Truthy(service_data) /\ service_data.t # "exc" /\ service_keys # <<>>
    /\ CheckValue(service_data, service_keys, op, value)

CheckNestedFeatureByKeys(ns_data, ns_keys, op, value) ==
    /\ Truthy(ns_data) /\ ns_keys # <<>>
    /\ \E ns \in DOMAIN ns_data.d :
           /\ Truthy(ns_data.d[ns]) /\ ns_data.d[ns].t # "exc"
           /\ CheckValue(ns_data.d[ns], ns_keys, op, value)

FieldCheckOp(source, check_func, fields, compare_op, compare_val) ==
    [source |-> source, check_func |-> check_func, fields |-> fields,
     compare_op |-> compare_op, compare_val |-> compare_val]

ServiceFieldCheck(fields) == FieldCheckOp("service", "global", fields, ">", PyInt(0))
NamespacesFieldCheck(fields) == FieldCheckOp("namespaces", "nested", fields, ">", PyInt(0))
XdrDcsFieldCheck(fields) == FieldCheckOp("xdr_dc", "nested", fields, ">", PyInt(0))

\* FieldCheck.check
FieldCheckCheck(fc, srcs) ==
    /\ fc.source \in DOMAIN srcs
    /\ IF fc.check_func = "global"
       THEN CheckFeatureByKeys(srcs[fc.source], fc.fields, fc.compare_op, fc.compare_val)
       ELSE CheckNestedFeatureByKeys(srcs[fc.source], fc.fields, fc.compare_op, fc.compare_val)

FeatureCheck(display_key, field_checks) ==
    [display_key |-> display_key, field_checks |-> field_checks]

\* FeatureCheck.check
FeatureCheckCheck(feature_check, srcs) ==
    /\ DOMAIN srcs # {}
    /\ \E c \in DOMAIN feature_check.field_checks :
           FieldCheckCheck(feature_check.field_checks[c], srcs)

feature_checks ==
    << FeatureCheck("KVS",
           << ServiceFieldCheck(<< "stat_read_reqs", "stat_write_reqs" >>),
              NamespacesFieldCheck(<< "client_read_error", "client_read_success",
                                      "client_write_error", "client_write_success" >>) >>),
       FeatureCheck("UDF",
           << ServiceFieldCheck(<< "udf_read_reqs", "udf_write_reqs" >>),
              NamespacesFieldCheck(<< "client_udf_complete", "client_udf_error" >>) >>),
       FeatureCheck("Batch",
           << ServiceFieldCheck(<< "batch_initiate", "batch_index_initiate" >>) >>),
       FeatureCheck("Scan",
           << ServiceFieldCheck(<< "tscan_initiate", "basic_scans_succeeded",
                                   "basic_scans_failed", "aggr_scans_succeeded",
                                   "aggr_scans_failed", "udf_bg_scans_succeeded",
                                   "udf_bg_scans_failed" >>),
              NamespacesFieldCheck(<< "scan_basic_complete", "scan_basic_error",
                                      "scan_aggr_complete", "scan_aggr_error",
                                      "scan_udf_bg_complete", "scan_udf_bg_error" >>) >>),
       FeatureCheck("SIndex",
           << ServiceFieldCheck(<< "sindex-used-bytes-memory" >>),
              NamespacesFieldCheck(<< "memory_used_sindex_bytes" >>) >>),
       FeatureCheck("Query",
           << ServiceFieldCheck(<< "query_reqs", "query_success" >>),
              NamespacesFieldCheck(<< "query_reqs", "query_success" >>) >>),
       FeatureCheck("PIndex Query",
           << NamespacesFieldCheck(<< "pi_query_long_basic_complete",
                                      "pi_query_long_basic_error",
                                      "pi_query_short_basic_complete",
                                      "pi_query_short_basic_error",
                                      "pi_query_aggr_complete", "pi_query_aggr_error",
                                      "pi_query_udf_bg_complete", "pi_query_udf_bg_error",
                                      "pi_query_ops_bg_complete",
                                      "pi_query_ops_bg_error" >>) >>),
       FeatureCheck("SIndex Query",
           << NamespacesFieldCheck(<< "si_query_long_basic_complete",
                                      "si_query_long_basic_error",
                                      "si_query_short_basic_complete",
                                      "si_query_short_basic_error",
                                      "si_query_aggr_complete", "si_query_aggr_error",
                                      "si_query_udf_bg_complete", "si_query_udf_bg_error",
                                      "si_query_ops_bg_complete",
                                      "si_query_ops_bg_error" >>) >>),
       FeatureCheck("Aggregation",
           << ServiceFieldCheck(<< "query_aggr_success", "query_aggr_error",
                                   "query_aggr_abort", "query_agg" >>),
              NamespacesFieldCheck(<< "query_aggr_success", "query_aggr_error",
                                      "query_aggr_abort", "query_agg" >>) >>),
       FeatureCheck("LDT",
           << ServiceFieldCheck(<< "sub-records", "ldt-writes", "ldt-reads", "ldt-deletes",
                                   "ldt_writes", "ldt_reads", "ldt_deletes",
                                   "sub_objects" >>),
              NamespacesFieldCheck(<< "ldt-writes", "ldt-reads", "ldt-deletes",
                                      "ldt_writes", "ldt_reads", "ldt_deletes" >>) >>),
       FeatureCheck("XDR Source",
           << ServiceFieldCheck(<< "stat_read_reqs_xdr", "xdr_read_success",
                                   "xdr_read_error" >>),
              XdrDcsFieldCheck(<< "success" >>) >>),
       FeatureCheck("XDR Destination",
           << ServiceFieldCheck(<< "stat_write_reqs_xdr" >>),
              NamespacesFieldCheck(<< "xdr_write_success", "xdr_client_write_success" >>) >>),
       FeatureCheck("Rack-aware",
           << ServiceFieldCheck(<< "self-group-id" >>),
              NamespacesFieldCheck(<< "rack-id" >>) >>),
       FeatureCheck("Security",
           << FieldCheckOp("service", "global", << "enable-security" >>, "==", PyStr("true")),
              FieldCheckOp("security", "global", << "enable-security" >>, "==",
                           PyStr("true")) >>),
       FeatureCheck("TLS (Heartbeat)",
           << ServiceFieldCheck(<< "heartbeat.mesh-seed-address-port" >>) >>),
       FeatureCheck("TLS (Fabric)", << ServiceFieldCheck(<< "fabric.tls-port" >>) >>),
       FeatureCheck("TLS (Service)", << ServiceFieldCheck(<< "service.tls-port" >>) >>),
       FeatureCheck("SC",
           << FieldCheckOp("namespaces", "nested", << "strong-consistency" >>, "==",
                           PyStr("true")) >>),
       FeatureCheck("Index-on-device",
           << NamespacesFieldCheck(<< "index_flash_used_bytes" >>) >>),
       FeatureCheck("Index-on-pmem",
           << FieldCheckOp("namespaces", "nested", << "index-type" >>, "==",
                           PyStr("pmem")) >>) >>

\* The sources dict that both feature functions build for one node.
NodeSources(st, service_data, ns_data, node) ==
    [source \in {"service", "namespaces", "xdr_dc", "security"} |->
        CASE source = "service" -> GetValueFromDict(service_data, node, PyNone, "dict")
          [] source = "namespaces" -> GetValueFromDict(ns_data, node, PyNone, "dict")
          [] source = "xdr_dc" -> GetValueFromDict(st.xdr_dc_stats, node, PyNone, "dict")
          [] OTHER -> GetValueFromDict(st.security_configs, node, PyNone, "dict")]

\* list(service_data.keys()): the nodes are numbered in the order of the dict.
NodesOf(service_data) ==
    [i \in 1..Cardinality(DOMAIN service_data.d) |->
        CHOOSE node \in DOMAIN service_data.d :
            Cardinality({m \in DOMAIN service_data.d : m < node}) = i - 1]

\* The features list after the nodes from position n on were tried for fc.
RECURSIVE FirstNode(_, _, _, _, _, _)
FirstNode(st, service_data, ns_data, nodes, n, fc) ==
    IF n > Len(nodes)
    THEN <<>>
    ELSE IF FeatureCheckCheck(fc, NodeSources(st, service_data, ns_data, nodes[n]))
    THEN << fc.display_key >>
    ELSE FirstNode(st, service_data, ns_data, nodes, n + 1, fc)

\* Mutant of FindFeaturesForCluster: no break after the append.
FindFeaturesForClusterNoBreak(st) ==
    LET service_data == DeepMergeDicts(st.service_stats, st.service_configs)
        ns_data == DeepMergeDicts(st.ns_stats, st.ns_configs)
        nodes == NodesOf(service_data)
    IN  Flatten([f \in 1..Len(feature_checks) |->
            Flatten([n \in 1..Len(nodes) |->
                IF FeatureCheckCheck(feature_checks[f],
                                     NodeSources(st, service_data, ns_data, nodes[n]))
                THEN << feature_checks[f].display_key >>
                ELSE <<>>])])

\* _find_features_for_cluster
FindFeaturesForCluster(st) ==
    LET service_data == DeepMergeDicts(st.service_stats, st.service_configs)
        ns_data == DeepMergeDicts(st.ns_stats, st.ns_configs)
        nodes == NodesOf(service_data)
    IN  Flatten([f \in 1..Len(feature_checks) |->
            FirstNode(st, service_data, ns_data, nodes, 1, feature_checks[f])])

\* find_nodewise_features
FindNodewiseFeatures(st) ==
    LET service_data == DeepMergeDicts(st.service_stats, st.service_configs)
        ns_data == DeepMergeDicts(st.ns_stats, st.ns_configs)
    IN  [node \in DOMAIN service_data.d |->
            [key \in {feature_checks[f].display_key : f \in DOMAIN feature_checks} |->
                LET feature_check ==
                        feature_checks[CHOOSE f \in DOMAIN feature_checks :
                                           feature_checks[f].display_key = key]
                IN  IF FeatureCheckCheck(feature_check,
                                         NodeSources(st, service_data, ns_data, node))
                    THEN "YES"
                    ELSE "NO"]]

CallFindNodewiseFeatures ==
    /\ "nodewise" \notin called
    /\ nodewise' = FindNodewiseFeatures(stats)
    /\ called' = called \cup {"nodewise"}
    /\ UNCHANGED <<stats, cluster, sheetVars, callVars, procVars>>

CallFindFeaturesForCluster ==
    /\ "cluster" \notin called
    /\ cluster' = FindFeaturesForCluster(stats)
    /\ called' = called \cup {"cluster"}
    /\ UNCHANGED <<stats, nodewise, sheetVars, callVars, procVars>>

\* ------------------------------------------- the declarations and the inputs

Field(key, source, aggregator) ==
    [key |-> key, source |-> source, aggregator |-> aggregator, hidden |-> "None"]

FieldA == Field(<<"a">>, "sa", "None")
FieldB == Field(<<"b">>, "sb", "None")
FieldC == Field(<<"c">>, "sc", "sum")
FieldD == Field(<<"d">>, "sd", "None")

NoBys == [kind |-> "None", keys |-> <<>>]

Sheet(fields, for_each, where, group_bys, order_bys) ==
    [fields |-> fields, for_each |-> for_each, where |-> where,
     group_bys |-> group_bys, order_bys |-> order_bys,
     has_aggregates |-> \E i \in DOMAIN fields : fields[i].aggregator # "None",
     no_entry |-> "--", error_entry |-> "~~"]

PlainSheet == Sheet(<<FieldA, FieldC>>, <<>>, "None", NoBys, NoBys)

GroupedSheet ==
    Sheet(<<FieldA, FieldC>>, <<>>, "None", [kind |-> "str", keys |-> << <<"a">> >>], NoBys)

FilteredSheet ==
    Sheet(<<FieldA, FieldC>>, <<>>, "c_is_value",
          [kind |-> "str", keys |-> << <<"a">> >>], NoBys)

Grouped2Sheet ==
    Sheet(<<FieldA, FieldB, FieldC>>, <<>>, "None",
          [kind |-> "tuple", keys |-> << <<"a">>, <<"b">> >>], NoBys)

OrderedSheet ==
    Sheet(<<FieldA, FieldB, FieldD, FieldC>>, <<>>, "None",
          [kind |-> "tuple", keys |-> << <<"a">> >>],
          [kind |-> "list", keys |-> << <<"b">>, <<"d">> >>])

ForEachSheet == Sheet(<<FieldA, FieldC>>, << "sc" >>, "None", NoBys, NoBys)

\* A row key that a source does not hold.
Missing == [tag |-> "missing", out |-> Raises("KeyError"), k |-> "", items |-> <<>>]

Values == [i \in 1..MaxVal |-> Scalar(Returns(i))]
One == << Scalar(Returns(1)) >>
Two == << Scalar(Returns(2)) >>
Absent == << Scalar(Raises("NoEntryException")) >>
Failed == << Scalar(Raises("ErrorEntryException")) >>
Faulty == << Scalar(Raises("Exception")) >>
Mappings ==
    << Mapping(<<>>),
       Mapping(<< [k |-> "k1", out |-> Returns(1)] >>),
       Mapping(<< [k |-> "k1", out |-> Returns(1)], [k |-> "k2", out |-> Returns(2)] >>),
       Mapping(<< [k |-> "k2", out |-> Raises("NoEntryException")],
                  [k |-> "k1", out |-> Returns(2)] >>) >>

\* What a node reports: its value in each argument of the feature functions,
\* PyAbsent where the argument has no entry for the node.
PyAbsent == [t |-> "absent", i |-> 0, s |-> "", d |-> <<>>]

Stat(name, val) == PyDict([k \in {name} |-> val])

Profile(service_stats, ns_stats, xdr_dc_stats, service_configs, ns_configs, security_configs) ==
    [service_stats |-> service_stats, ns_stats |-> ns_stats,
     xdr_dc_stats |-> xdr_dc_stats, service_configs |-> service_configs,
     ns_configs |-> ns_configs, security_configs |-> security_configs]

NodeProfiles ==
    << Profile(Stat("stat_read_reqs", PyInt(5)), PyAbsent, PyAbsent, PyAbsent, PyAbsent,
               PyAbsent),
       Profile(Stat("stat_read_reqs", PyInt(0)),
               Stat("ns1", Stat("client_read_success", PyInt(0))),
               PyAbsent, PyAbsent, PyAbsent, PyAbsent),
       Profile(PyDict(<<>>), Stat("ns1", Stat("client_write_success", PyStr("7"))),
               PyAbsent, PyAbsent, PyAbsent, PyAbsent),
       Profile(PyExc,
               PyDict([ns \in {"ns1", "ns2"} |->
                          IF ns = "ns1" THEN PyExc ELSE Stat("client_udf_error", PyInt(3))]),
               PyAbsent, PyAbsent, PyAbsent, PyAbsent),
       Profile(Stat("stat_read_reqs", PyStr("abc")), PyAbsent,
               Stat("dc1", Stat("success", PyInt(5))), PyAbsent, PyAbsent, PyAbsent),
       Profile(Stat("udf_read_reqs", PyNone), PyAbsent, PyAbsent,
               Stat("enable-security", PyStr("true")), PyAbsent, PyAbsent),
       Profile(Stat("batch_initiate", PyInt(2)), PyAbsent, PyAbsent, PyAbsent, PyAbsent,
               Stat("enable-security", PyStr("true"))),
       Profile(Stat("stat_write_reqs", PyInt(1)),
               Stat("ns1", Stat("client_read_success", PyInt(0))), PyAbsent, PyAbsent,
               Stat("ns1", Stat("index-type", PyStr("pmem"))),
               Stat("enable-security", PyStr("false"))),
       Profile(Stat("query_reqs", PyInt(4)), PyExc, PyExc, PyAbsent, PyAbsent, PyAbsent),
       Profile(Stat("unknown", PyInt(9)),
               Stat("ns1", PyDict([k \in {"strong-consistency", "rack-id"} |->
                                      IF k = "rack-id" THEN PyInt(0) ELSE PyStr("true")])),
               Stat("dc1", Stat("success", PyInt(0))), PyAbsent, PyAbsent, PyAbsent),
       Profile(Stat("enable-security", PyInt(1)), PyDict(<<>>), PyAbsent, PyAbsent,
               PyAbsent, PyAbsent),
       Profile(PyAbsent, PyAbsent, PyAbsent,
               Stat("heartbeat.mesh-seed-address-port", PyInt(9)), PyAbsent, PyAbsent),
       Profile(PyAbsent, Stat("ns1", Stat("client_read_success", PyInt(5))), PyAbsent,
               PyAbsent, PyAbsent, PyAbsent) >>

\* The argument arg of the feature functions when node n reports
\* NodeProfiles[codes[n]].
ArgOf(codes, arg) ==
    PyDict([node \in {n \in DOMAIN codes : NodeProfiles[codes[n]][arg] # PyAbsent} |->
               NodeProfiles[codes[node]][arg]])

StatsOf(codes) ==
    [arg \in {"service_stats", "ns_stats", "xdr_dc_stats", "service_configs",
              "ns_configs", "security_configs"} |-> ArgOf(codes, arg)]

NoStats == StatsOf(<<>>)

\* A family of inputs: a declaration and, for each of its sources, the raw
\* values a row may hold there (every combination of them is a row), and
\* further rows given one by one.
Families ==
    << [decl |-> PlainSheet,
        raws |-> << [source |-> "sa", vals |-> Values],
                    [source |-> "sc", vals |-> One \o Absent \o Failed \o Faulty] >>,
        more |-> <<>>],
       [decl |-> PlainSheet,
        raws |-> << [source |-> "sa", vals |-> One \o << Missing >>],
                    [source |-> "sc", vals |-> One \o << Missing >>] >>,
        more |-> <<>>],
       [decl |-> GroupedSheet,
        raws |-> << [source |-> "sa", vals |-> Values],
                    [source |-> "sc", vals |-> Values \o Absent \o Failed] >>,
        more |-> <<>>],
       [decl |-> FilteredSheet,
        raws |-> << [source |-> "sa", vals |-> Values],
                    [source |-> "sc", vals |-> Values \o Absent \o Failed] >>,
        more |-> <<>>],
       [decl |-> Grouped2Sheet,
        raws |-> << [source |-> "sa", vals |-> Values],
                    [source |-> "sb", vals |-> Values],
                    [source |-> "sc", vals |-> One \o Absent] >>,
        more |-> <<>>],
       [decl |-> OrderedSheet,
        raws |-> << [source |-> "sa", vals |-> One],
                    [source |-> "sb", vals |-> Values],
                    [source |-> "sd", vals |-> One \o Two],
                    [source |-> "sc", vals |-> One \o Two] >>,
        more |-> << << [source |-> "sa", raw |-> Two[1]], [source |-> "sb", raw |-> One[1]],
                       [source |-> "sd", raw |-> One[1]], [source |-> "sc", raw |-> One[1]] >> >>],
       [decl |-> ForEachSheet,
        raws |-> << [source |-> "sa", vals |-> One],
                    [source |-> "sc", vals |-> Mappings \o Failed] >>,
        more |-> <<>>] >>

RECURSIVE Size(_)
Size(raws) == IF raws = <<>> THEN 1 ELSE Len(Head(raws).vals) * Size(Tail(raws))

\* The code-th combination of the raw values, one [source, raw] per source.
RECURSIVE Combination(_, _)
Combination(raws, code) ==
    IF raws = <<>>
    THEN <<>>
    ELSE LET h == Head(raws)
         IN  << [source |-> h.source, raw |-> h.vals[(code % Len(h.vals)) + 1]] >>
             \o Combination(Tail(raws), code \div Len(h.vals))

NRows(family) == Size(family.raws) + Len(family.more)

\* The code-th row of a family.
Content(family, code) ==
    IF code < Size(family.raws)
    THEN Combination(family.raws, code)
    ELSE family.more[code - Size(family.raws) + 1]

\* The sources argument holding, at row key r, the codes[r]-th combination.
SourcesOf(family, codes) ==
    [s \in {family.raws[i].source : i \in DOMAIN family.raws} |->
        LET at == CHOOSE i \in DOMAIN family.raws : family.raws[i].source = s
            cell(r) == Content(family, codes[r])[at].raw
        IN  [r \in {r \in DOMAIN codes : cell(r).tag # "missing"} |-> cell(r)]]

\* Row keys are names: inputs that differ by a renaming of the row keys have
\* the same builds, so the rows are drawn in non-decreasing order of code.
Init ==
    \E f \in DOMAIN Families : \E n \in 0..MaxRows :
        \E codes \in [1..n -> 0..(NRows(Families[f]) - 1)] :
            /\ \A r \in 1..(n - 1) : codes[r] <= codes[r + 1]
            /\ decl = Families[f].decl
            /\ sources = SourcesOf(Families[f], codes)
            /\ status = "new"
            /\ rsheet = NoSheet
            /\ prev = NoSheet
            /\ builds = 0
            /\ obj = <<>>
            /\ pc = <<>>
            /\ requests = <<>>
            /\ stats = NoStats
            /\ nodewise = <<>>
            /\ cluster = <<>>
            /\ called = {}
            /\ args = <<>>
            /\ ret = <<>>

Next == Build

Spec == Init /\ [][Next]_vars

NextRepeat == Build \/ Rebuild

\* Declarations that differ in the hidden value of a field, in the form of
\* group_bys and in having an aggregator, and the rows given to them.
FieldAB == Field(<<"a", "b">>, "sb", "None")

HiddenSheet(hidden) ==
    Sheet(<<FieldA, [FieldB EXCEPT !.hidden = hidden], [FieldC EXCEPT !.hidden = hidden]>>,
          <<>>, "None", [kind |-> "tuple", keys |-> << <<"a">> >>], NoBys)

NoAggregatorSheet ==
    Sheet(<<FieldA, FieldB>>, <<>>, "None", [kind |-> "tuple", keys |-> << <<"a">> >>], NoBys)

StrGroupedSheet(kind) ==
    Sheet(<<FieldA, FieldAB, FieldC>>, <<>>, "None",
          [kind |-> kind, keys |-> << <<"a", "b">> >>],
          [kind |-> "list", keys |-> << <<"a", "b">> >>])

FieldFamilies ==
    << [decl |-> HiddenSheet("None"),
        raws |-> << [source |-> "sa", vals |-> Values],
                    [source |-> "sb", vals |-> One \o Absent],
                    [source |-> "sc", vals |-> One \o Absent \o Failed] >>,
        more |-> <<>>],
       [decl |-> HiddenSheet("True"),
        raws |-> << [source |-> "sa", vals |-> One],
                    [source |-> "sb", vals |-> One \o Absent],
                    [source |-> "sc", vals |-> One \o Absent] >>,
        more |-> <<>>],
       [decl |-> HiddenSheet("False"),
        raws |-> << [source |-> "sa", vals |-> One],
                    [source |-> "sb", vals |-> One \o Absent],
                    [source |-> "sc", vals |-> One \o Absent] >>,
        more |-> <<>>],
       [decl |-> GroupedSheet,
        raws |-> << [source |-> "sa", vals |-> Values \o Absent],
                    [source |-> "sc", vals |-> One \o Absent] >>,
        more |-> <<>>],
       [decl |-> GroupedSheet,
        raws |-> << [source |-> "sa", vals |-> One \o Failed],
                    [source |-> "sc", vals |-> One] >>,
        more |-> <<>>],
       [decl |-> NoAggregatorSheet,
        raws |-> << [source |-> "sa", vals |-> Values],
                    [source |-> "sb", vals |-> One \o Absent] >>,
        more |-> <<>>],
       [decl |-> StrGroupedSheet("str"),
        raws |-> << [source |-> "sa", vals |-> One],
                    [source |-> "sb", vals |-> Values],
                    [source |-> "sc", vals |-> One] >>,
        more |-> <<>>],
       [decl |-> StrGroupedSheet("tuple"),
        raws |-> << [source |-> "sa", vals |-> One],
                    [source |-> "sb", vals |-> Values],
                    [source |-> "sc", vals |-> One] >>,
        more |-> <<>>] >>

InitFields ==
    \E f \in DOMAIN FieldFamilies : \E n \in 0..MaxRows :
        \E codes \in [1..n -> 0..(NRows(FieldFamilies[f]) - 1)] :
            /\ \A r \in 1..(n - 1) : codes[r] <= codes[r + 1]
            /\ decl = FieldFamilies[f].decl
            /\ sources = SourcesOf(FieldFamilies[f], codes)
            /\ status = "new"
            /\ rsheet = NoSheet
            /\ prev = NoSheet
            /\ builds = 0
            /\ obj = <<>>
            /\ pc = <<>>
            /\ requests = <<>>
            /\ stats = NoStats
            /\ nodewise = <<>>
            /\ cluster = <<>>
            /\ called = {}
            /\ args = <<>>
            /\ ret = <<>>

NextFields == Build

SpecFields == InitFields /\ [][NextFields]_vars

\* A declaration with two for_each keys, and the rows given to it.
ForEach2Sheet == Sheet(<<FieldA, FieldB, FieldC>>, << "sb", "sc" >>, "None", NoBys, NoBys)

ForEach2Family ==
    [decl |-> ForEach2Sheet,
     raws |-> << [source |-> "sa", vals |-> One],
                 [source |-> "sb", vals |-> << Mappings[2], Mappings[3] >> \o Failed],
                 [source |-> "sc", vals |-> << Mappings[1], Mappings[4] >> \o Failed] >>,
     more |-> <<>>]

InitForEach ==
    \E n \in 0..MaxRows :
        \E codes \in [1..n -> 0..(NRows(ForEach2Family) - 1)] :
            /\ \A r \in 1..(n - 1) : codes[r] <= codes[r + 1]
            /\ decl = ForEach2Family.decl
            /\ sources = SourcesOf(ForEach2Family, codes)
            /\ status = "new"
            /\ rsheet = NoSheet
            /\ prev = NoSheet
            /\ builds = 0
            /\ obj = <<>>
            /\ pc = <<>>
            /\ requests = <<>>
            /\ stats = NoStats
            /\ nodewise = <<>>
            /\ cluster = <<>>
            /\ called = {}
            /\ args = <<>>
            /\ ret = <<>>

NextForEach == Build

SpecForEach == InitForEach /\ [][NextForEach]_vars

SpecRepeat == Init /\ [][NextRepeat]_vars

\* The feature functions, each called once, in either order, on the statistics
\* of up to MaxNodes nodes.
InitFeatures ==
    \E n \in 0..MaxNodes :
        \E codes \in [1..n -> 1..Len(NodeProfiles)] :
            /\ \A node \in 1..(n - 1) : codes[node] <= codes[node + 1]
            /\ stats = StatsOf(codes)
            /\ nodewise = <<>>
            /\ cluster = <<>>
            /\ called = {}
            /\ decl = PlainSheet
            /\ sources = <<>>
            /\ status = "idle"
            /\ rsheet = NoSheet
            /\ prev = NoSheet
            /\ builds = 0
            /\ obj = <<>>
            /\ pc = <<>>
            /\ requests = <<>>
            /\ args = <<>>
            /\ ret = <<>>

NextFeatures == CallFindNodewiseFeatures \/ CallFindFeaturesForCluster

SpecFeatures == InitFeatures /\ [][NextFeatures]_vars


\* ------------------------------------------------- license data (common.py)

\* Exact arithmetic on the floats of the computation: num / den, den > 0.
Rat(num, den) == [num |-> num, den |-> den]

RatOf(x) == Rat(x.i, IF x.t = "float" THEN x.d[1] ELSE 1)

RatAdd(x, y) == Rat(x.num * y.den + y.num * x.den, x.den * y.den)

RatSub(x, y) == Rat(x.num * y.den - y.num * x.den, x.den * y.den)

\* x / y for y > 0
RatDiv(x, y) == Rat(x.num * y.den, x.den * y.num)

\* round(x) of Python 3: to the nearest integer, a tie to the even one.
Round(x) ==
    LET q == x.num \div x.den
        r == x.num - q * x.den
    IN  IF 2 * r < x.den THEN q
        ELSE IF 2 * r > x.den THEN q + 1
        ELSE IF q % 2 = 0 THEN q ELSE q + 1

\* An ordered dict: the items [k, v] in the order of iteration.
ODict(items) == [t |-> "odict", items |-> items]

\* version.LooseVersion(s): the components of the version string.
LooseVersion(str) ==
    CASE str = "2.6.9" -> <<2, 6, 9>>
      [] str = "2.7.0" -> <<2, 7, 0>>
      [] str = "2.9" -> <<2, 9>>
      [] str = "3.0.0" -> <<3, 0, 0>>
      [] str = "3.1.3" -> <<3, 1, 3>>
      [] str = "5.7" -> <<5, 7>>
      [] str = "6.0" -> <<6, 0>>
      [] str = "6.1.0" -> <<6, 1, 0>>
      [] OTHER -> <<0>>

\* v1 <= v2 on the components, as lists compare in Python.
RECURSIVE VersionLeq(_, _)
VersionLeq(v1, v2) ==
    IF v1 = <<>> THEN TRUE
    ELSE IF v2 = <<>> THEN FALSE
    ELSE IF Head(v1) # Head(v2) THEN Head(v1) < Head(v2)
    ELSE VersionLeq(Tail(v1), Tail(v2))

\* constants.SERVER_39_BYTE_OVERHEAD_FIRST_VERSION
SERVER_39_BYTE_OVERHEAD_FIRST_VERSION == "6.0"

\* The license_data of _initialize_summary_output.
InitialLicenseData == [latest |-> 0]

\* _initialize_summary_output(ns_list), the license data of it.
InitializeSummaryOutput(ns_list) ==
    [CLUSTER |-> [license_data |-> InitialLicenseData],
     NAMESPACES |-> [ns \in ns_list |-> [license_data |-> InitialLicenseData]]]

\* Mutant of ManualHost: the memory bytes count also when the host uses a
\* device or pmem.
ManualHostAddsMemory(acc, host_id, host_stats, server_builds) ==
    IF ~Truthy(host_stats) \/ host_stats.t = "exc"
    THEN acc
    ELSE LET repl_factor ==
                 GetValueFromDictKeys(host_stats,
                     <<"effective_replication_factor", "replication-factor", "repl-factor">>,
                     PyInt(-1), "int").i
             host_master_objects ==
                 GetValueFromDictKeys(host_stats, <<"master_objects", "master-objects">>,
                                      PyInt(0), "int").i
             host_device_compression_ratio ==
                 RatOf(GetValueFromDict(host_stats, "device_compression_ratio",
                                        PyFloat(1, 1), "float"))
             host_pmem_compression_ratio ==
                 RatOf(GetValueFromDict(host_stats, "pmem_compression_ratio",
                                        PyFloat(1, 1), "float"))
             host_device_bytes ==
                 RatDiv(RatOf(GetValueFromDict(host_stats, "device_used_bytes",
                                               PyFloat(0, 1), "float")),
                        host_device_compression_ratio)
             host_pmem_bytes ==
                 RatDiv(RatOf(GetValueFromDict(host_stats, "pmem_used_bytes",
                                               PyFloat(0, 1), "float")),
                        host_pmem_compression_ratio)
             host_memory_bytes ==
                 IF TRUE
                 THEN RatAdd(RatOf(GetValueFromDict(host_stats, "memory_used_index_bytes",
                                                    PyFloat(0, 1), "float")),
                             RatOf(GetValueFromDict(host_stats, "memory_used_data_bytes",
                                                    PyFloat(0, 1), "float")))
                 ELSE Rat(0, 1)
             host_build_version == GetValueFromDict(server_builds, host_id, PyNone, "str")
             host_record_overhead ==
                 IF VersionLeq(LooseVersion(SERVER_39_BYTE_OVERHEAD_FIRST_VERSION),
                               LooseVersion(host_build_version.s))
                 THEN 39 ELSE 35
             host_unique_data == RatAdd(RatAdd(host_memory_bytes, host_pmem_bytes),
                                        host_device_bytes)
         IN  IF repl_factor = 0 THEN acc
             ELSE IF repl_factor = -1
             THEN [acc EXCEPT !.raised = "unable to determine cluster replication factor"]
             ELSE IF acc.ns_repl_factor # 1 /\ repl_factor # acc.ns_repl_factor
             THEN [acc EXCEPT !.raised = "different replication factor found across nodes"]
             ELSE IF host_build_version = PyNone
             THEN [acc EXCEPT !.raised = "could not find host in build responses"]
             ELSE [raised |-> "None",
                   ns_unique_data |-> RatAdd(acc.ns_unique_data, host_unique_data),
                   ns_master_objects |-> acc.ns_master_objects + host_master_objects,
                   ns_repl_factor |-> repl_factor,
                   ns_record_overhead |->
                       acc.ns_record_overhead + host_master_objects * host_record_overhead]

\* The body of the loop over the hosts of a namespace: acc holds the ns_*
\* variables of the loop.
ManualHost(acc, host_id, host_stats, server_builds) ==
    IF ~Truthy(host_stats) \/ host_stats.t = "exc"
    THEN acc
    ELSE LET repl_factor ==
                 GetValueFromDictKeys(host_stats,
                     <<"effective_replication_factor", "replication-factor", "repl-factor">>,
                     PyInt(-1), "int").i
             host_master_objects ==
                 GetValueFromDictKeys(host_stats, <<"master_objects", "master-objects">>,
                                      PyInt(0), "int").i
             host_device_compression_ratio ==
                 RatOf(GetValueFromDict(host_stats, "device_compression_ratio",
                                        PyFloat(1, 1), "float"))
             host_pmem_compression_ratio ==
                 RatOf(GetValueFromDict(host_stats, "pmem_compression_ratio",
                                        PyFloat(1, 1), "float"))
             host_device_bytes ==
                 RatDiv(RatOf(GetValueFromDict(host_stats, "device_used_bytes",
                                               PyFloat(0, 1), "float")),
                        host_device_compression_ratio)
             host_pmem_bytes ==
                 RatDiv(RatOf(GetValueFromDict(host_stats, "pmem_used_bytes",
                                               PyFloat(0, 1), "float")),
                        host_pmem_compression_ratio)
             host_memory_bytes ==
                 IF host_pmem_bytes.num = 0 /\ host_device_bytes.num = 0
                 THEN RatAdd(RatOf(GetValueFromDict(host_stats, "memory_used_index_bytes",
                                                    PyFloat(0, 1), "float")),
                             RatOf(GetValueFromDict(host_stats, "memory_used_data_bytes",
                                                    PyFloat(0, 1), "float")))
                 ELSE Rat(0, 1)
             host_build_version == GetValueFromDict(server_builds, host_id, PyNone, "str")
             host_record_overhead ==
                 IF VersionLeq(LooseVersion(SERVER_39_BYTE_OVERHEAD_FIRST_VERSION),
                               LooseVersion(host_build_version.s))
                 THEN 39 ELSE 35
             host_unique_data == RatAdd(RatAdd(host_memory_bytes, host_pmem_bytes),
                                        host_device_bytes)
         IN  IF repl_factor = 0 THEN acc
             ELSE IF repl_factor = -1
             THEN [acc EXCEPT !.raised = "unable to determine cluster replication factor"]
             ELSE IF acc.ns_repl_factor # 1 /\ repl_factor # acc.ns_repl_factor
             THEN [acc EXCEPT !.raised = "different replication factor found across nodes"]
             ELSE IF host_build_version = PyNone
             THEN [acc EXCEPT !.raised = "could not find host in build responses"]
             ELSE [raised |-> "None",
                   ns_unique_data |-> RatAdd(acc.ns_unique_data, host_unique_data),
                   ns_master_objects |-> acc.ns_master_objects + host_master_objects,
                   ns_repl_factor |-> repl_factor,
                   ns_record_overhead |->
                       acc.ns_record_overhead + host_master_objects * host_record_overhead]

\* for host_id, host_stats in ns_stats.items(), until an exception is raised
RECURSIVE ManualHosts(_, _, _)
ManualHosts(acc, items, server_builds) ==
    IF items = <<>> \/ acc.raised # "None"
    THEN acc
    ELSE ManualHosts(ManualHost(acc, Head(items).k, Head(items).v, server_builds),
                     Tail(items), server_builds)

\* The body of the loop over the namespaces after the loop over the hosts,
\* hosts being what that loop left: acc holds summary_dict, cl_unique_data and
\* the exception raised, if any.
ManualNamespace(acc, ns, hosts) ==
    IF hosts.raised # "None"
    THEN [acc EXCEPT !.raised = hosts.raised]
    ELSE LET ns_unique_data ==
                 Round(RatSub(RatDiv(hosts.ns_unique_data, Rat(hosts.ns_repl_factor, 1)),
                              Rat(hosts.ns_record_overhead, 1)))
         IN  [raised |-> "None",
              summary_dict |->
                  [acc.summary_dict EXCEPT
                      !.NAMESPACES[ns].license_data.latest = ns_unique_data],
              cl_unique_data |-> acc.cl_unique_data + ns_unique_data]

\* for ns, ns_stats in namespace_stats.items(), until an exception is raised
RECURSIVE ManualNamespaces(_, _, _)
ManualNamespaces(acc, items, server_builds) ==
    IF items = <<>> \/ acc.raised # "None"
    THEN acc
    ELSE IF Head(items).v.t = "exc" \/ Head(items).v.items = <<>>
    THEN ManualNamespaces(acc, Tail(items), server_builds)
    ELSE ManualNamespaces(
             ManualNamespace(acc, Head(items).k,
                             ManualHosts([raised |-> "None", ns_unique_data |-> Rat(0, 1),
                                          ns_master_objects |-> 0, ns_repl_factor |-> 1,
                                          ns_record_overhead |-> 0],
                                         Head(items).v.items, server_builds)),
             Tail(items), server_builds)

\* The end of _manually_compute_license_data_size, done being what the loop
\* over the namespaces left.
ManualCluster(done) ==
    IF done.raised # "None"
    THEN [raised |-> done.raised, summary_dict |-> done.summary_dict]
    ELSE [raised |-> "None",
          summary_dict |->
              [done.summary_dict EXCEPT !.CLUSTER.license_data.latest = done.cl_unique_data]]

\* _manually_compute_license_data_size: the exception raised, if any, and
\* summary_dict as the call leaves it.
ManuallyComputeLicenseDataSize(namespace_stats, server_builds, summary_dict) ==
    IF namespace_stats.items = <<>>
    THEN [raised |-> "None", summary_dict |-> summary_dict]
    ELSE ManualCluster(ManualNamespaces([raised |-> "None", summary_dict |-> summary_dict,
                                         cl_unique_data |-> 0],
                                        namespace_stats.items, server_builds))

\* float("inf"), and a number, as the min of AggregateLicenseUsage
Inf == [inf |-> TRUE, v |-> 0]

Fin(n) == [inf |-> FALSE, v |-> n]

\* AggregateLicenseUsage()
AggregateLicenseUsage ==
    [min |-> Inf, max |-> 0, avg |-> Rat(0, 1), latest |-> 0, latest_time |-> "now",
     count |-> 0]

\* dateutil's isoparse accepts the string.
IsoParsable(str) == str \in {"2024-01-01", "2024-01-02"}

\* AggregateLicenseUsage.update(val, time): the exception raised, if any, and
\* the object after the call.
Update(agg, val, time) ==
    IF val.t \notin {"int", "float", "bool"}
    THEN [raised |-> "TypeError", agg |-> agg]
    ELSE IF time.t \notin {"none", "str"}
    THEN [raised |-> "TypeError", agg |-> agg]
    ELSE IF time.t = "str" /\ ~IsoParsable(time.s)
    THEN [raised |-> "ValueError", agg |-> agg]
    ELSE [raised |-> "None",
          agg |-> [min |-> IF agg.min.inf \/ val.i < agg.min.v THEN Fin(val.i) ELSE agg.min,
                   max |-> IF val.i > agg.max THEN val.i ELSE agg.max,
                   count |-> agg.count + 1,
                   avg |-> RatDiv(RatAdd(Rat(agg.avg.num * agg.count, agg.avg.den),
                                         Rat(val.i, 1)),
                                  Rat(agg.count + 1, 1)),
                   latest |-> val.i,
                   latest_time |-> IF time.t = "str" THEN time.s ELSE agg.latest_time]]

\* AggregateLicenseUsage.__dict__()
AggDict(agg) ==
    [latest |-> agg.latest, latest_time |-> agg.latest_time, min |-> agg.min.v,
     max |-> agg.max, avg |-> Round(agg.avg)]

\* namespaces_result[ns].update(ns_data_bytes, time_), after being the outcome
\* of the update: acc holds the exception raised, if any, and namespaces_result.
ParseNamespace(acc, ns, after) ==
    IF after.raised # "None"
    THEN [acc EXCEPT !.raised = after.raised]
    ELSE [acc EXCEPT !.namespaces_result =
             [n \in DOMAIN acc.namespaces_result \cup {ns} |->
                 IF n = ns THEN after.agg ELSE acc.namespaces_result[n]]]

\* for ns, usage in entry["namespaces"].items()
RECURSIVE ParseNamespaces(_, _, _, _)
ParseNamespaces(acc, namespaces, todo, time_) ==
    IF todo = {} \/ acc.raised # "None"
    THEN acc
    ELSE LET ns == CHOOSE ns \in todo : TRUE
             usage == namespaces.d[ns]
         IN  IF usage.t # "dict"
             THEN [acc EXCEPT !.raised = "TypeError"]
             ELSE IF "unique_data_bytes" \notin DOMAIN usage.d
             THEN [acc EXCEPT !.raised = "KeyError"]
             ELSE ParseNamespaces(
                      ParseNamespace(acc, ns,
                                     Update(IF ns \in DOMAIN acc.namespaces_result
                                            THEN acc.namespaces_result[ns]
                                            ELSE AggregateLicenseUsage,
                                            usage.d["unique_data_bytes"], time_)),
                      namespaces, todo \ {ns}, time_)

\* The body of the loop over the entries from cluster_result.update on, total
\* being the outcome of the update.
ParseEntryFromUpdate(acc, entry, total) ==
    IF total.raised # "None"
    THEN [acc EXCEPT !.raised = total.raised]
    ELSE IF "namespaces" \notin DOMAIN entry.d
    THEN [acc EXCEPT !.cluster_result = total.agg]
    ELSE IF entry.d["namespaces"].t # "dict"
    THEN [acc EXCEPT !.cluster_result = total.agg, !.raised = "AttributeError"]
    ELSE ParseNamespaces([acc EXCEPT !.cluster_result = total.agg], entry.d["namespaces"],
                         DOMAIN entry.d["namespaces"].d, entry.d["time"])

\* Mutant of ParseEntry: an entry of an unstable cluster never counts.
ParseEntryStableOnly(acc, entry, allow_unstable) ==
    IF entry.t # "dict" THEN [acc EXCEPT !.raised = "TypeError"]
    ELSE IF "level" \notin DOMAIN entry.d THEN [acc EXCEPT !.raised = "KeyError"]
    ELSE IF entry.d["level"] # PyStr("info") THEN acc
    ELSE IF ~allow_unstable /\ "cluster_stable" \notin DOMAIN entry.d
    THEN [acc EXCEPT !.raised = "KeyError"]
    ELSE IF "cluster_stable" \in DOMAIN entry.d /\ ~Truthy(entry.d["cluster_stable"]) THEN acc
    ELSE IF "time" \notin DOMAIN entry.d \/ "unique_data_bytes" \notin DOMAIN entry.d
    THEN [acc EXCEPT !.raised = "KeyError"]
    ELSE ParseEntryFromUpdate(acc, entry,
                              Update(acc.cluster_result, entry.d["unique_data_bytes"],
                                     entry.d["time"]))

\* The body of the loop over the entries: acc holds the exception raised, if
\* any, cluster_result and namespaces_result.
ParseEntry(acc, entry, allow_unstable) ==
    IF entry.t # "dict" THEN [acc EXCEPT !.raised = "TypeError"]
    ELSE IF "level" \notin DOMAIN entry.d THEN [acc EXCEPT !.raised = "KeyError"]
    ELSE IF entry.d["level"] # PyStr("info") THEN acc
    ELSE IF ~allow_unstable /\ "cluster_stable" \notin DOMAIN entry.d
    THEN [acc EXCEPT !.raised = "KeyError"]
    ELSE IF ~allow_unstable /\ ~Truthy(entry.d["cluster_stable"]) THEN acc
    ELSE IF "time" \notin DOMAIN entry.d \/ "unique_data_bytes" \notin DOMAIN entry.d
    THEN [acc EXCEPT !.raised = "KeyError"]
    ELSE ParseEntryFromUpdate(acc, entry,
                              Update(acc.cluster_result, entry.d["unique_data_bytes"],
                                     entry.d["time"]))

RECURSIVE ParseEntries(_, _, _)
ParseEntries(acc, entries, allow_unstable) ==
    IF entries = <<>> \/ acc.raised # "None"
    THEN acc
    ELSE ParseEntries(ParseEntry(acc, Head(entries), allow_unstable), Tail(entries),
                      allow_unstable)

\* summary_dict with the license data of the namespaces of namespaces_result
\* that it has.
StoreNamespaces(summary_dict, namespaces_result) ==
    [summary_dict EXCEPT !.NAMESPACES =
        [ns \in DOMAIN summary_dict.NAMESPACES |->
            IF ns \in DOMAIN namespaces_result
            THEN [summary_dict.NAMESPACES[ns] EXCEPT !.license_data =
                     AggDict(namespaces_result[ns])]
            ELSE summary_dict.NAMESPACES[ns]]]

\* Mutant of StoreAgentResult: the cluster's result is stored as soon as an
\* entry was accepted, also when a later entry raises.
StoreAgentResultEarly(done, summary_dict) ==
    IF done.cluster_result.count = 0
    THEN [raised |-> done.raised, ret |-> FALSE, summary_dict |-> summary_dict]
    ELSE IF done.raised # "None"
    THEN [raised |-> done.raised, ret |-> FALSE,
          summary_dict |-> [summary_dict EXCEPT !.CLUSTER.license_data =
                               AggDict(done.cluster_result)]]
    ELSE [raised |-> "None", ret |-> TRUE,
          summary_dict |->
              StoreNamespaces([summary_dict EXCEPT !.CLUSTER.license_data =
                                  AggDict(done.cluster_result)],
                              done.namespaces_result)]

\* _parse_agent_response after the loop over the entries, done being what the
\* loop left: the exception raised, if any, the value returned and
\* summary_dict as the call leaves it.
StoreAgentResult(done, summary_dict) ==
    IF done.raised # "None"
    THEN [raised |-> done.raised, ret |-> FALSE, summary_dict |-> summary_dict]
    ELSE IF done.cluster_result.count = 0
    THEN [raised |-> "None", ret |-> FALSE, summary_dict |-> summary_dict]
    ELSE [raised |-> "None", ret |-> TRUE,
          summary_dict |->
              StoreNamespaces([summary_dict EXCEPT !.CLUSTER.license_data =
                                  AggDict(done.cluster_result)],
                              done.namespaces_result)]

\* _parse_agent_response
ParseAgentResponse(license_usage, summary_dict, allow_unstable) ==
    IF license_usage.t # "dict"
    THEN [raised |-> "TypeError", ret |-> FALSE, summary_dict |-> summary_dict]
    ELSE IF "entries" \notin DOMAIN license_usage.d
    THEN [raised |-> "KeyError", ret |-> FALSE, summary_dict |-> summary_dict]
    ELSE IF license_usage.d["entries"].t # "list"
    THEN [raised |-> "TypeError", ret |-> FALSE, summary_dict |-> summary_dict]
    ELSE StoreAgentResult(ParseEntries([raised |-> "None",
                                        cluster_result |-> AggregateLicenseUsage,
                                        namespaces_result |-> <<>>],
                                       license_usage.d["entries"].d, allow_unstable),
                          summary_dict)

\* compute_license_data_size after the try block, parsed being the outcome of
\* _parse_agent_response.
ComputeAfterParse(parsed, namespace_stats, server_builds) ==
    IF parsed.raised \notin {"None", "TypeError", "ValueError", "KeyError"}
    THEN [raised |-> parsed.raised, summary_dict |-> parsed.summary_dict]
    ELSE IF parsed.raised = "None" /\ parsed.ret
    THEN [raised |-> "None", summary_dict |-> parsed.summary_dict]
    ELSE ManuallyComputeLicenseDataSize(namespace_stats, server_builds,
                                        parsed.summary_dict)

\* compute_license_data_size: the exception that leaves the call, if any, and
\* summary_dict as the call leaves it.
ComputeLicenseDataSize(namespace_stats, license_data_usage, server_builds, allow_unstable, summary_dict) ==
    IF ~Truthy(license_data_usage)
    THEN ManuallyComputeLicenseDataSize(namespace_stats, server_builds, summary_dict)
    ELSE ComputeAfterParse(
             IF "license_usage" \notin DOMAIN license_data_usage.d
             THEN [raised |-> "KeyError", ret |-> FALSE, summary_dict |-> summary_dict]
             ELSE ParseAgentResponse(license_data_usage.d["license_usage"], summary_dict,
                                     allow_unstable),
             namespace_stats, server_builds)

\* The keys of an ordered dict.
Keys(odict) == {odict.items[i].k : i \in DOMAIN odict.items}

\* create_summary, as far as the license data goes: the exception that leaves
\* the call, if any, whether the statements after compute_license_data_size
\* ran, and summary_dict.
CreateSummary(namespace_stats, license_allow_unstable, server_build, license_data_usage) ==
    LET summary_dict == InitializeSummaryOutput(Keys(namespace_stats))
        computed == ComputeLicenseDataSize(namespace_stats, license_data_usage,
                                           server_build, license_allow_unstable,
                                           summary_dict)
    IN  [raised |-> computed.raised,
         returned |-> computed.raised = "None",
         summary_dict |-> computed.summary_dict]

\* What a host reports for the namespace "test", and its build in the
\* server_build metadata (PyAbsent: the host is not in it).
HostProfiles ==
    << [stats |-> PyDict(("repl-factor" :> PyInt(1)) @@ ("master_objects" :> PyInt(10))
                         @@ ("memory_used_data_bytes" :> PyInt(1000))),
        build |-> PyStr("5.7")],
       [stats |-> PyDict(("effective_replication_factor" :> PyInt(2))
                         @@ ("master_objects" :> PyInt(2))
                         @@ ("device_used_bytes" :> PyInt(500))
                         @@ ("device_compression_ratio" :> PyStr("0.5"))
                         @@ ("memory_used_data_bytes" :> PyInt(77))),
        build |-> PyStr("6.0")],
       [stats |-> PyDict(("replication-factor" :> PyStr("2"))
                         @@ ("master-objects" :> PyStr("3"))
                         @@ ("pmem_used_bytes" :> PyInt(301))
                         @@ ("memory_used_index_bytes" :> PyInt(64))),
        build |-> PyStr("6.1.0")],
       [stats |-> PyDict(("repl-factor" :> PyInt(3)) @@ ("master_objects" :> PyInt(1))
                         @@ ("memory_used_index_bytes" :> PyInt(100))
                         @@ ("memory_used_data_bytes" :> PyInt(200))),
        build |-> PyStr("5.7")],
       [stats |-> PyDict(("effective_replication_factor" :> PyInt(0))
                         @@ ("repl-factor" :> PyInt(2))
                         @@ ("device_used_bytes" :> PyInt(400))),
        build |-> PyStr("6.0")],
       [stats |-> PyDict(("master_objects" :> PyInt(5)) @@ ("device_used_bytes" :> PyInt(100))),
        build |-> PyStr("6.0")],
       [stats |-> PyExc, build |-> PyStr("6.0")],
       [stats |-> PyDict(("repl-factor" :> PyInt(1)) @@ ("memory_used_data_bytes" :> PyInt(10))),
        build |-> PyAbsent],
       [stats |-> PyDict(("repl-factor" :> PyInt(2)) @@ ("master_objects" :> PyInt(1))
                         @@ ("memory_used_data_bytes" :> PyInt(101))),
        build |-> PyStr("5.7")],
       [stats |-> PyDict(<<>>), build |-> PyStr("5.7")] >>

\* The profiles of the hosts of "test" when the agent's response is varied.
FewHosts == {1, 6}

\* What is reported for the namespace "bar", by host 0.
BarOptions ==
    << <<>>,
       << [k |-> "bar",
           v |-> ODict(<< [k |-> 0,
                           v |-> PyDict(("repl-factor" :> PyInt(2))
                                        @@ ("master_objects" :> PyInt(1))
                                        @@ ("pmem_used_bytes" :> PyInt(90)))] >>)] >>,
       << [k |-> "bar", v |-> [t |-> "exc", items |-> <<>>]] >> >>

NamespaceStatsOf(codes, bar) ==
    ODict(<< [k |-> "test",
              v |-> ODict([h \in DOMAIN codes |->
                              [k |-> h, v |-> HostProfiles[codes[h]].stats]])] >>
          \o BarOptions[bar])

ServerBuildsOf(codes) ==
    PyDict([h \in {0} \cup {h \in DOMAIN codes : HostProfiles[codes[h]].build # PyAbsent} |->
               IF h = 0 THEN PyStr("6.0") ELSE HostProfiles[codes[h]].build])

Usage(bytes) == PyDict("unique_data_bytes" :> PyInt(bytes))

InfoEntry(stable, time, more) ==
    PyDict(("level" :> PyStr("info")) @@ ("cluster_stable" :> PyBool(stable))
           @@ ("time" :> PyStr(time)) @@ more)

\* The entries the agent may give.
EntryProfiles ==
    << InfoEntry(TRUE, "2024-01-01",
                 ("unique_data_bytes" :> PyInt(100))
                 @@ ("namespaces" :> PyDict(("test" :> Usage(60)) @@ ("other" :> Usage(40))))),
       InfoEntry(FALSE, "2024-01-02",
                 ("unique_data_bytes" :> PyInt(501))
                 @@ ("namespaces" :> PyDict("test" :> Usage(501)))),
       PyDict("level" :> PyStr("error")),
       InfoEntry(TRUE, "2024-01-02", "unique_data_bytes" :> PyInt(301)),
       InfoEntry(TRUE, "2024-01-02", <<>>),
       InfoEntry(TRUE, "bad", "unique_data_bytes" :> PyInt(50)),
       InfoEntry(TRUE, "2024-01-02",
                 ("unique_data_bytes" :> PyInt(70))
                 @@ ("namespaces" :> PyDict("test" :> PyDict(<<>>)))),
       InfoEntry(TRUE, "2024-01-02", "unique_data_bytes" :> PyNone),
       InfoEntry(TRUE, "2024-01-02",
                 ("unique_data_bytes" :> PyInt(20)) @@ ("namespaces" :> PyNone)) >>

\* license_data_usage: no response, an empty one, one without license_usage,
\* one whose license_usage is null, or one with the entries.
UsageForms == {"none", "empty", "no_key", "null", "entries"}

LicenseDataUsageOf(form, ecodes) ==
    CASE form = "none" -> PyNone
      [] form = "empty" -> PyDict(<<>>)
      [] form = "no_key" -> PyDict("error" :> PyStr("timeout"))
      [] form = "null" -> PyDict("license_usage" :> PyNone)
      [] OTHER -> PyDict("license_usage" :>
                      PyDict("entries" :>
                          PyList([e \in DOMAIN ecodes |-> EntryProfiles[ecodes[e]]])))

\* Either the hosts are varied and there is no agent, or the agent's response
\* is varied over few hosts.
InitLicense ==
    \E n \in 0..MaxHosts : \E codes \in [1..n -> 1..Len(HostProfiles)] :
    \E bar \in DOMAIN BarOptions : \E form \in UsageForms :
    \E m \in 0..MaxEntries : \E ecodes \in [1..m -> 1..Len(EntryProfiles)] :
    \E allow_unstable \in BOOLEAN :
        /\ form # "entries" => m = 0
        /\ \/ form = "none" /\ ~allow_unstable
           \/ n <= 1 /\ bar = 1 /\ \A h \in 1..n : codes[h] \in FewHosts
        /\ args = [namespace_stats |-> NamespaceStatsOf(codes, bar),
                   server_builds |-> ServerBuildsOf(codes),
                   license_data_usage |-> LicenseDataUsageOf(form, ecodes),
                   allow_unstable |-> allow_unstable]
        /\ ret = <<>>
        /\ stats = NoStats
        /\ nodewise = <<>>
        /\ cluster = <<>>
        /\ called = {}
        /\ decl = PlainSheet
        /\ sources = <<>>
        /\ status = "idle"
        /\ rsheet = NoSheet
        /\ prev = NoSheet
        /\ builds = 0
        /\ obj = <<>>
        /\ pc = <<>>
        /\ requests = <<>>

CallManuallyComputeLicenseDataSize ==
    /\ "_manually_compute_license_data_size" \notin DOMAIN ret
    /\ ret' = ret @@ ("_manually_compute_license_data_size" :>
                  ManuallyComputeLicenseDataSize(
                      args.namespace_stats, args.server_builds,
                      InitializeSummaryOutput(Keys(args.namespace_stats))))
    /\ UNCHANGED <<args, sheetVars, featureVars, procVars>>

CallComputeLicenseDataSize ==
    /\ "compute_license_data_size" \notin DOMAIN ret
    /\ ret' = ret @@ ("compute_license_data_size" :>
                  ComputeLicenseDataSize(
                      args.namespace_stats, args.license_data_usage, args.server_builds,
                      args.allow_unstable,
                      InitializeSummaryOutput(Keys(args.namespace_stats))))
    /\ UNCHANGED <<args, sheetVars, featureVars, procVars>>

CallCreateSummary ==
    /\ "create_summary" \notin DOMAIN ret
    /\ ret' = ret @@ ("create_summary" :>
                  CreateSummary(args.namespace_stats, args.allow_unstable,
                                args.server_builds, args.license_data_usage))
    /\ UNCHANGED <<args, sheetVars, featureVars, procVars>>

\* The entries of a response given to _parse_agent_response alone.
AgentEntryProfiles ==
    EntryProfiles
    \o << InfoEntry(TRUE, "2024-01-01",
                    ("unique_data_bytes" :> PyInt(30))
                    @@ ("namespaces" :> PyDict("test" :> Usage(30)))),
          InfoEntry(FALSE, "2024-01-01",
                    ("unique_data_bytes" :> PyInt(0))
                    @@ ("namespaces" :> PyDict(("test" :> Usage(0)) @@ ("other" :> Usage(0))))) >>

InitAgent ==
    \E m \in 0..(MaxEntries + 1) : \E ecodes \in [1..m -> 1..Len(AgentEntryProfiles)] :
    \E allow_unstable \in BOOLEAN :
        /\ args = [namespace_stats |-> NamespaceStatsOf(<<1>>, 1),
                   server_builds |-> ServerBuildsOf(<<1>>),
                   license_data_usage |->
                       PyDict("license_usage" :>
                           PyDict("entries" :>
                               PyList([e \in DOMAIN ecodes |->
                                          AgentEntryProfiles[ecodes[e]]]))),
                   allow_unstable |-> allow_unstable]
        /\ ret = <<>>
        /\ stats = NoStats
        /\ nodewise = <<>>
        /\ cluster = <<>>
        /\ called = {}
        /\ decl = PlainSheet
        /\ sources = <<>>
        /\ status = "idle"
        /\ rsheet = NoSheet
        /\ prev = NoSheet
        /\ builds = 0
        /\ obj = <<>>
        /\ pc = <<>>
        /\ requests = <<>>

CallParseAgentResponse ==
    /\ "_parse_agent_response" \notin DOMAIN ret
    /\ ret' = ret @@ ("_parse_agent_response" :>
                  ParseAgentResponse(args.license_data_usage.d["license_usage"],
                                     InitializeSummaryOutput(Keys(args.namespace_stats)),
                                     args.allow_unstable))
    /\ UNCHANGED <<args, sheetVars, featureVars, procVars>>

NextAgent == CallParseAgentResponse

SpecAgent == InitAgent /\ [][NextAgent]_vars

NextLicense ==
    \/ CallManuallyComputeLicenseDataSize
    \/ CallComputeLicenseDataSize
    \/ CallCreateSummary

SpecLicense == InitLicense /\ [][NextLicense]_vars

\* --------------------------------------------------- stop writes (common.py)

\* str.lower() of one character
LowerChar(c) ==
    CASE c = "T" -> "t"
      [] c = "R" -> "r"
      [] c = "U" -> "u"
      [] c = "E" -> "e"
      [] c = "F" -> "f"
      [] c = "A" -> "a"
      [] c = "L" -> "l"
      [] c = "S" -> "s"
      [] OTHER -> c

\* str.lower() of a string, given as the sequence of its characters
Lower(str) == [i \in DOMAIN str |-> LowerChar(str[i])]

\* Mutant of IsStopWritesCause: a threshold of 0 is compared like any other.
IsStopWritesCauseNoBypass(usage, threshold, stop_writes) ==
    usage >= threshold
        /\ (stop_writes = <<"None">> \/ Lower(stop_writes) = <<"t", "r", "u", "e">>)

\* _is_stop_writes_cause(usage, threshold, stop_writes); <<"None">> stands for
\* the None of a stop_writes that is not given.
IsStopWritesCause(usage, threshold, stop_writes) ==
    IF threshold = 0
    THEN FALSE
    ELSE usage >= threshold
             /\ (stop_writes = <<"None">> \/ Lower(stop_writes) = <<"t", "r", "u", "e">>)

\* The values of stop_writes the server may give, and None.
StopWritesValues ==
    { <<"None">>, <<"t", "r", "u", "e">>, <<"T", "R", "U", "E">>, <<"T", "r", "u", "e">>,
      <<"f", "a", "l", "s", "e">>, <<"F", "a", "l", "s", "e">>, <<>>,
      <<"t", "r", "u", "e", "e">>, <<"t", "r", "u">> }

InitStopWrites ==
    \E usage \in 0..MaxMetric : \E threshold \in 0..MaxMetric :
    \E stop_writes \in StopWritesValues :
        /\ args = [usage |-> usage, threshold |-> threshold, stop_writes |-> stop_writes]
        /\ ret = <<>>
        /\ stats = NoStats
        /\ nodewise = <<>>
        /\ cluster = <<>>
        /\ called = {}
        /\ decl = PlainSheet
        /\ sources = <<>>
        /\ status = "idle"
        /\ rsheet = NoSheet
        /\ prev = NoSheet
        /\ builds = 0
        /\ obj = <<>>
        /\ pc = <<>>
        /\ requests = <<>>

CallIsStopWritesCause ==
    /\ "_is_stop_writes_cause" \notin DOMAIN ret
    /\ ret' = ret @@ ("_is_stop_writes_cause" :>
                  IsStopWritesCause(args.usage, args.threshold, args.stop_writes))
    /\ UNCHANGED <<args, sheetVars, featureVars, procVars>>

NextStopWrites == CallIsStopWritesCause

SpecStopWrites == InitStopWrites /\ [][NextStopWrites]_vars

\* ---------------------------------------------------- histograms (common.py)

\* portion >= percentile, where portion is the double cum_total / total (0.0
\* when total is 0) and percentile is the double that k - 1 additions of 0.1
\* to 0.1 give: 0.1, 0.2, 0.30000000000000004, 0.4, 0.5, 0.6, 0.7,
\* 0.7999999999999999, 0.8999999999999999, 0.9999999999999999,
\* 1.0999999999999999. Only the third lies above k / 10, and a quotient of
\* counts that equals 3 / 10 is the double 0.3, which is below it.
PortionReaches(cum_total, total, k) ==
    /\ total > 0
    /\ IF k = 3 THEN 10 * cum_total > 3 * total ELSE 10 * cum_total >= k * total

\* while portion >= percentile: percentile += 0.1; result.append(i + 1)
RECURSIVE WhilePortionReaches(_, _, _, _)
WhilePortionReaches(acc, cum_total, total, i) ==
    IF PortionReaches(cum_total, total, acc.k)
    THEN WhilePortionReaches([k |-> acc.k + 1, result |-> Append(acc.result, i + 1)],
                             cum_total, total, i)
    ELSE acc

\* for i, v in enumerate(hist), from the index i (counted from 0) on: acc
\* holds the number k of the percentile (percentile is its k-th value) and
\* result.
RECURSIVE PercentileLoop(_, _, _, _, _)
PercentileLoop(acc, hist, cum_total, total, i) ==
    IF i >= Len(hist)
    THEN acc
    ELSE LET cum == cum_total + hist[i + 1]
             after == WhilePortionReaches(acc, cum, total, i)
         IN  IF after.k > 10
             THEN after
             ELSE PercentileLoop(after, hist, cum, total, i + 1)

RECURSIVE Sum(_)
Sum(seq) == IF seq = <<>> THEN 0 ELSE Head(seq) + Sum(Tail(seq))

\* The body of the loops of _create_histogram_percentiles_output: the
\* percentiles of the histogram hist of one host.
HistogramPercentiles(histogram_name, hist, width) ==
    LET looped == PercentileLoop([k |-> 1, result |-> <<>>], hist, 0, Sum(hist), 0).result
        result == IF looped = <<>> THEN [k \in 1..10 |-> 0] ELSE looped
    IN  IF histogram_name = "objsz"
        THEN [r \in DOMAIN result |->
                 IF result[r] > 0 THEN result[r] * width - 1 ELSE result[r]]
        ELSE [r \in DOMAIN result |-> result[r] * width]

\* The sequences over S of the lengths 0..n
SeqsUpTo(S, n) == UNION {[1..m -> S] : m \in 0..n}

InitHistogram ==
    \E hist \in SeqsUpTo(0..MaxCount, MaxBuckets) : \E width \in 1..2 :
    \E histogram_name \in {"objsz", "ttl"} :
        /\ args = [histogram_name |-> histogram_name, hist |-> hist, width |-> width]
        /\ ret = <<>>
        /\ stats = NoStats
        /\ nodewise = <<>>
        /\ cluster = <<>>
        /\ called = {}
        /\ decl = PlainSheet
        /\ sources = <<>>
        /\ status = "idle"
        /\ rsheet = NoSheet
        /\ prev = NoSheet
        /\ builds = 0
        /\ obj = <<>>
        /\ pc = <<>>
        /\ requests = <<>>

CallCreateHistogramPercentilesOutput ==
    /\ "_create_histogram_percentiles_output" \notin DOMAIN ret
    /\ ret' = ret @@ ("_create_histogram_percentiles_output" :>
                  HistogramPercentiles(args.histogram_name, args.hist, args.width))
    /\ UNCHANGED <<args, sheetVars, featureVars, procVars>>

NextHistogram == CallCreateHistogramPercentilesOutput

SpecHistogram == InitHistogram /\ [][NextHistogram]_vars

\* ------------------------------------------- byte distribution (common.py)

VersionLess(v1, v2) == ~VersionLeq(v2, v1)

\* The try block of the loops over the hosts: rblock_size_bytes after it, from
\* its value before it; builds[host_id] raises for a host that is not there.
RblockSizeBytes(before, builds_, host_id) ==
    IF host_id \notin DOMAIN builds_.d
    THEN before
    ELSE LET as_version == LooseVersion(builds_.d[host_id].s)
         IN  IF \/ VersionLess(as_version, LooseVersion("2.7.0"))
                \/ /\ VersionLeq(LooseVersion("3.0.0"), as_version)
                   /\ VersionLess(as_version, LooseVersion("3.1.3"))
             THEN 512
             ELSE before

\* The first loop over the hosts: acc holds rblock_size_bytes, width and
\* result.
RECURSIVE PopulatedLoop(_, _, _)
PopulatedLoop(acc, items, builds_) ==
    IF items = <<>>
    THEN acc
    ELSE LET data_ == Head(items).v
         IN  PopulatedLoop(
                 [rblock_size_bytes |->
                      RblockSizeBytes(acc.rblock_size_bytes, builds_, Head(items).k),
                  width |-> data_.width,
                  result |-> acc.result
                                 \cup {i \in 0..(Len(data_.data) - 1) : data_.data[i + 1] > 0}],
                 Tail(items), builds_)

\* result.sort()
RECURSIVE SortedList(_)
SortedList(S) ==
    IF S = {} THEN <<>>
    ELSE LET least == CHOOSE x \in S : \A y \in S : x <= y
         IN  <<least>> \o SortedList(S \ {least})

\* Mutant of RangeLoop: the width never grows.
RECURSIVE RangeLoopNeverWidens(_, _, _, _, _, _)
RangeLoopNeverWidens(start_buckets, start_bucket, bucket_width, bucket_index, additional_bucket_index, bucket_count) ==
    IF bucket_index >= bucket_count
    THEN Append(start_buckets, start_bucket)
    ELSE RangeLoopNeverWidens(Append(start_buckets, start_bucket),
                              start_bucket + bucket_width, bucket_width,
                              bucket_index + 1, additional_bucket_index, bucket_count)

\* while bucket_index < bucket_count, and the append after it
RECURSIVE RangeLoop(_, _, _, _, _, _)
RangeLoop(start_buckets, start_bucket, bucket_width, bucket_index, additional_bucket_index, bucket_count) ==
    IF bucket_index >= bucket_count
    THEN Append(start_buckets, start_bucket)
    ELSE LET width == IF bucket_index = additional_bucket_index
                      THEN bucket_width + 1
                      ELSE bucket_width
         IN  RangeLoop(Append(start_buckets, start_bucket), start_bucket + width, width,
                       bucket_index + 1, additional_bucket_index, bucket_count)

\* start_buckets of the sorted list result of the populated buckets
StartBuckets(result, bucket_count) ==
    IF Len(result) <= bucket_count
    THEN Flatten([r \in DOMAIN result |-> <<result[r], result[r] + 1>>])
    ELSE LET size == result[Len(result)] - result[1] + 1
         IN  RangeLoop(<<>>, result[1], size \div bucket_count, 0,
                       bucket_count - (size % bucket_count), bucket_count)

\* file_size.size(bytes, file_size.byte): the text of a number of bytes. Only
\* the number it renders is kept.
FileSize(bytes) == [bytes |-> bytes, literal |-> FALSE]

\* _create_range_key(s, e): "%s to %s"
CreateRangeKey(s, e) == [gt |-> FALSE, s |-> s, e |-> e]

\* _get_bucket_range: the key of the column of the buckets from current_bucket
\* up to next_bucket; s_b starts as the literal "0 B".
GetBucketRange(current_bucket, next_bucket, width, rblock_size_bytes) ==
    LET end_ == ((current_bucket * width) - 1) * rblock_size_bytes
        last_bucket_last_rblock_end == IF end_ < 1 THEN 0 ELSE end_ + 1
        s_b == IF current_bucket > 0
               THEN FileSize(last_bucket_last_rblock_end)
               ELSE [bytes |-> 0, literal |-> TRUE]
        bucket_last_rblock_end == ((next_bucket * width) - 1) * rblock_size_bytes
    IN  IF current_bucket > 0 /\ (current_bucket = 99 \/ next_bucket > 99)
        THEN [gt |-> TRUE, s |-> s_b, e |-> s_b]
        ELSE CreateRangeKey(s_b, FileSize(bucket_last_rblock_end))

\* The loop over start_buckets after the sort: the keys appended to columns,
\* each with need_to_show False.
FirstColumns(start_buckets, width, rblock_size_bytes) ==
    [i \in 1..(Len(start_buckets) - 1) |->
        GetBucketRange(start_buckets[i], start_buckets[i + 1], width, rblock_size_bytes)]

\* Mutant of RangeCount: the last bucket of the range is left out.
RECURSIVE RangeCountStopsEarly(_, _, _)
RangeCountStopsEarly(hist, b_index, next_bucket) ==
    IF b_index + 1 >= next_bucket
    THEN 0
    ELSE hist[b_index + 1] + RangeCountStopsEarly(hist, b_index + 1, next_bucket)

\* while b_index < start_buckets[i + 1]: what is added to data_["values"][key]
RECURSIVE RangeCount(_, _, _)
RangeCount(hist, b_index, next_bucket) ==
    IF b_index >= next_bucket
    THEN 0
    ELSE hist[b_index + 1] + RangeCount(hist, b_index + 1, next_bucket)

\* Mutant of HostRange: a key is shown as soon as a host has it.
HostRangeShowsAll(acc, key, count) ==
    LET value == IF key \in DOMAIN acc.values THEN acc.values[key] + count ELSE count
    IN  [columns |-> IF key \in Range(acc.columns)
                     THEN acc.columns
                     ELSE Append(acc.columns, key),
         need_to_show |-> (key :> TRUE) @@ acc.need_to_show,
         values |-> (key :> value) @@ acc.values]

\* One pass of the loop over start_buckets for a host: acc holds columns,
\* need_to_show and the values of the host.
HostRange(acc, key, count) ==
    LET value == IF key \in DOMAIN acc.values THEN acc.values[key] + count ELSE count
    IN  [columns |-> IF key \in Range(acc.columns)
                     THEN acc.columns
                     ELSE Append(acc.columns, key),
         need_to_show |-> IF value > 0
                          THEN (key :> TRUE) @@ acc.need_to_show
                          ELSE IF key \in DOMAIN acc.need_to_show
                               THEN acc.need_to_show
                               ELSE (key :> FALSE) @@ acc.need_to_show,
         values |-> (key :> value) @@ acc.values]

\* for i, s in enumerate(start_buckets) of a host
RECURSIVE HostRanges(_, _, _, _, _, _)
HostRanges(acc, hist, width, rblock_size_bytes, start_buckets, i) ==
    IF i >= Len(start_buckets) - 1
    THEN acc
    ELSE HostRanges(
             HostRange(acc,
                       GetBucketRange(start_buckets[i + 1], start_buckets[i + 2],
                                      width, rblock_size_bytes),
                       RangeCount(hist, start_buckets[i + 1], start_buckets[i + 2])),
             hist, width, rblock_size_bytes, start_buckets, i + 1)

\* The second loop over the hosts: acc holds columns, need_to_show and the
\* values of every host so far.
RECURSIVE HostsLoop(_, _, _, _)
HostsLoop(acc, items, builds_, start_buckets) ==
    IF items = <<>>
    THEN acc
    ELSE LET data_ == Head(items).v
             host == HostRanges([columns |-> acc.columns,
                                 need_to_show |-> acc.need_to_show,
                                 values |-> <<>>],
                                data_.data, data_.width,
                                RblockSizeBytes(128, builds_, Head(items).k),
                                start_buckets, 0)
         IN  HostsLoop([columns |-> host.columns,
                        need_to_show |-> host.need_to_show,
                        values |-> Append(acc.values, host.values)],
                       Tail(items), builds_, start_buckets)

\* host_data["columns"]: the columns that need_to_show keeps
ShownColumns(columns, need_to_show) ==
    LET Shown(column) == need_to_show[column]
    IN  SelectSeq(columns, Shown)

\* What the function leaves for the hosts of one namespace once start_buckets
\* is known.
HistogramOutput(first, result, start_buckets, host_data, builds_) ==
    LET first_columns == FirstColumns(start_buckets, first.width, first.rblock_size_bytes)
        second == HostsLoop([columns |-> first_columns,
                             need_to_show |-> [key \in Range(first_columns) |-> FALSE],
                             values |-> <<>>],
                            host_data.items, builds_, start_buckets)
    IN  [rblock_size_bytes |-> first.rblock_size_bytes,
         width |-> first.width,
         result |-> result,
         start_buckets |-> start_buckets,
         host_rblock_size_bytes |->
             [h \in DOMAIN host_data.items |->
                 RblockSizeBytes(128, builds_, host_data.items[h].k)],
         columns |-> ShownColumns(second.columns, second.need_to_show),
         values |-> second.values]

\* _create_bytewise_histogram_percentiles_output for the hosts of one
\* namespace: the rblock_size_bytes and width of the columns, start_buckets,
\* the rblock_size_bytes of each host in the second loop, host_data["columns"]
\* and data_["values"] of each host.
BytewiseOutput(first, result, bucket_count, host_data, builds_) ==
    HistogramOutput(first, result, StartBuckets(result, bucket_count), host_data, builds_)

BytewiseSorted(first, bucket_count, host_data, builds_) ==
    BytewiseOutput(first, SortedList(first.result), bucket_count, host_data, builds_)

BytewiseHistogram(host_data, bucket_count, builds_) ==
    BytewiseSorted(PopulatedLoop([rblock_size_bytes |-> 128, width |-> 1, result |-> {}],
                                 host_data.items, builds_),
                   bucket_count, host_data, builds_)

\* The builds of the hosts; "" stands for a host that is not in builds.
Versions == {"", "2.6.9", "2.7.0", "2.9", "3.0.0", "3.1.3", "6.0"}

\* What a second host may add: its histogram and its build.
SecondHosts ==
    {<<>>} \cup
    { << [data |-> [b \in 1..MaxByteBuckets |-> IF b = MaxByteBuckets THEN last ELSE 0],
          build |-> build] >> : last \in {0, 1}, build \in {"", "2.6.9", "6.0"} }

InitByteDistribution ==
    \E data \in [1..MaxByteBuckets -> {0, 1}] : \E build \in Versions :
    \E second \in SecondHosts : \E bucket_count \in 1..MaxBucketCount :
        LET hosts == << [data |-> data, build |-> build] >> \o second
        IN  /\ args = [host_data |-> ODict([h \in DOMAIN hosts |->
                                              [k |-> h,
                                               v |-> [data |-> hosts[h].data, width |-> 1]]]),
                       bucket_count |-> bucket_count,
                       builds |-> PyDict([h \in {h \in DOMAIN hosts : hosts[h].build # ""} |->
                                             PyStr(hosts[h].build)])]
            /\ ret = <<>>
            /\ stats = NoStats
            /\ nodewise = <<>>
            /\ cluster = <<>>
            /\ called = {}
            /\ decl = PlainSheet
            /\ sources = <<>>
            /\ status = "idle"
            /\ rsheet = NoSheet
            /\ prev = NoSheet
            /\ builds = 0
            /\ obj = <<>>
            /\ pc = <<>>
            /\ requests = <<>>

CallCreateBytewiseHistogramPercentilesOutput ==
    /\ "_create_bytewise_histogram_percentiles_output" \notin DOMAIN ret
    /\ ret' = ret @@ ("_create_bytewise_histogram_percentiles_output" :>
                  BytewiseHistogram(args.host_data, args.bucket_count, args.builds))
    /\ UNCHANGED <<args, sheetVars, featureVars, procVars>>

NextByteDistribution == CallCreateBytewiseHistogramPercentilesOutput

SpecByteDistribution == InitByteDistribution /\ [][NextByteDistribution]_vars

\* --------------------------------------------- RowRSheet.do_render (title repeat)

\* Mutant of TitleLoop: a title is repeated only when the width is exceeded.
RECURSIVE TitleLoopOnlyWhenExceeded(_, _, _, _, _)
TitleLoopOnlyWhenExceeded(acc, column_widths, i, title_incr, terminal_width) ==
    IF i >= Len(column_widths)
    THEN acc
    ELSE LET column_width == column_widths[i + 1]
         IN  IF acc.need_column \/ acc.cur_pos + column_width <= terminal_width
             THEN TitleLoopOnlyWhenExceeded(
                      [acc EXCEPT !.cur_pos = @ + column_width, !.need_column = FALSE],
                      column_widths, i + 1, title_incr, terminal_width)
             ELSE TitleLoopOnlyWhenExceeded(
                      [acc EXCEPT !.title_indicies = @ \cup {i},
                                  !.cur_pos = title_incr + column_width,
                                  !.n_repeats = @ + 1],
                      column_widths, i + 1, title_incr, terminal_width)

\* for i, column_width in enumerate(column_widths): acc holds title_indicies,
\* cur_pos, n_repeats and need_column.
RECURSIVE TitleLoop(_, _, _, _, _)
TitleLoop(acc, column_widths, i, title_incr, terminal_width) ==
    IF i >= Len(column_widths)
    THEN acc
    ELSE LET column_width == column_widths[i + 1]
         IN  IF acc.need_column \/ acc.cur_pos + column_width < terminal_width
             THEN TitleLoop([acc EXCEPT !.cur_pos = @ + column_width, !.need_column = FALSE],
                            column_widths, i + 1, title_incr, terminal_width)
             ELSE TitleLoop([acc EXCEPT !.title_indicies = @ \cup {i},
                                        !.cur_pos = title_incr + column_width,
                                        !.n_repeats = @ + 1],
                            column_widths, i + 1, title_incr, terminal_width)

\* if has_aggregate: ... title_indicies.add('aggr'); aggr tells that 'aggr' is
\* in title_indicies.
TitleAggregate(acc, has_aggregate, row_aggr_width, terminal_width) ==
    IF has_aggregate /\ acc.cur_pos + row_aggr_width >= terminal_width
    THEN [acc EXCEPT !.aggr = TRUE, !.n_repeats = @ + 1]
    ELSE acc

\* do_render up to total_row_title_width: title_indicies (the column indexes
\* in title_indicies and whether 'aggr' is in it), cur_pos and n_repeats.
TitleIndicies(title_repeat, row_title_width, separator, column_widths, has_aggregate, row_aggr_width, terminal_width) ==
    IF title_repeat
    THEN TitleAggregate(TitleLoop([title_indicies |-> {0}, aggr |-> FALSE,
                                   cur_pos |-> row_title_width + separator,
                                   n_repeats |-> 1, need_column |-> TRUE],
                                  column_widths, 0, row_title_width + separator,
                                  terminal_width),
                        has_aggregate, row_aggr_width, terminal_width)
    ELSE [title_indicies |-> {0}, aggr |-> FALSE, cur_pos |-> 0, n_repeats |-> 1,
          need_column |-> TRUE]

InitRowSheet ==
    \E column_widths \in SeqsUpTo(1..MaxWidth, MaxColumns) :
    \E terminal_width \in 3..MaxTerminal : \E row_title_width \in 1..2 :
    \E row_aggr_width \in 1..2 : \E has_aggregate, title_repeat \in BOOLEAN :
        /\ args = [title_repeat |-> title_repeat, row_title_width |-> row_title_width,
                   separator |-> 1, column_widths |-> column_widths,
                   has_aggregate |-> has_aggregate, row_aggr_width |-> row_aggr_width,
                   terminal_width |-> terminal_width]
        /\ ret = <<>>
        /\ stats = NoStats
        /\ nodewise = <<>>
        /\ cluster = <<>>
        /\ called = {}
        /\ decl = PlainSheet
        /\ sources = <<>>
        /\ status = "idle"
        /\ rsheet = NoSheet
        /\ prev = NoSheet
        /\ builds = 0
        /\ obj = <<>>
        /\ pc = <<>>
        /\ requests = <<>>

CallDoRender ==
    /\ "do_render" \notin DOMAIN ret
    /\ ret' = ret @@ ("do_render" :>
                  TitleIndicies(args.title_repeat, args.row_title_width, args.separator,
                                args.column_widths, args.has_aggregate,
                                args.row_aggr_width, args.terminal_width))
    /\ UNCHANGED <<args, sheetVars, featureVars, procVars>>

NextRowSheet == CallDoRender

SpecRowSheet == InitRowSheet /\ [][NextRowSheet]_vars

\* ------------------------------------------------------------- util.Future

\* An exception object of a class.
ExcOf(class) == [t |-> "exc", i |-> 0, s |-> class, d |-> <<>>]

\* What the wrapped function does when it is called: it returns a value or
\* raises an exception.
FuncOutcomes ==
    {PyNone} \cup {PyInt(n) : n \in 0..MaxVal}
        \cup {ExcOf(class) : class \in {"KeyError", "ValueError", "IOError"}}

\* Future.__init__: _result and exc are None and the worker thread is made,
\* not started. args.func is what the wrapped function does.
InitFuture ==
    \E func \in FuncOutcomes :
        /\ args = [func |-> func]
        /\ ret = ("Future.result" :> <<>>)
        /\ obj = [_result |-> PyNone, exc |-> PyNone]
        /\ pc = [worker |-> "new", caller |-> "new"]
        /\ requests = <<>>
        /\ stats = NoStats
        /\ nodewise = <<>>
        /\ cluster = <<>>
        /\ called = {}
        /\ decl = PlainSheet
        /\ sources = <<>>
        /\ status = "idle"
        /\ rsheet = NoSheet
        /\ prev = NoSheet
        /\ builds = 0

\* Future.start: the worker thread starts, the caller has the future.
Start ==
    /\ pc.caller = "new"
    /\ pc' = [worker |-> "wrapper", caller |-> "idle"]
    /\ UNCHANGED <<obj, requests, sheetVars, featureVars, callVars>>

\* wrapper: self.exc = None
WrapperReset ==
    /\ pc.worker = "wrapper"
    /\ obj' = [obj EXCEPT !.exc = PyNone]
    /\ pc' = [pc EXCEPT !.worker = "try"]
    /\ UNCHANGED <<requests, sheetVars, featureVars, callVars>>

\* wrapper: self._result = func(*args, **kwargs), when func returns
WrapperResult ==
    /\ pc.worker = "try"
    /\ args.func.t # "exc"
    /\ obj' = [obj EXCEPT !._result = args.func]
    /\ pc' = [pc EXCEPT !.worker = "done"]
    /\ UNCHANGED <<requests, sheetVars, featureVars, callVars>>

\* wrapper: func raises; the assignment to self._result does not happen
WrapperRaise ==
    /\ pc.worker = "try"
    /\ args.func.t = "exc"
    /\ pc' = [pc EXCEPT !.worker = "except"]
    /\ UNCHANGED <<obj, requests, sheetVars, featureVars, callVars>>

\* wrapper: except Exception as e: self.exc = e; the thread ends
WrapperExcept ==
    /\ pc.worker = "except"
    /\ obj' = [obj EXCEPT !.exc = args.func]
    /\ pc' = [pc EXCEPT !.worker = "done"]
    /\ UNCHANGED <<requests, sheetVars, featureVars, callVars>>

\* The caller calls result(), at most MaxCalls times.
CallResult ==
    /\ pc.caller = "idle"
    /\ Len(ret["Future.result"]) < MaxCalls
    /\ pc' = [pc EXCEPT !.caller = "result"]
    /\ UNCHANGED <<obj, requests, sheetVars, featureVars, callVars>>

\* result: if self.exc: raise self.exc
ResultCheck ==
    /\ pc.caller = "result"
    /\ IF Truthy(obj.exc)
       THEN /\ ret' = [ret EXCEPT !["Future.result"] = Append(@, obj.exc)]
            /\ pc' = [pc EXCEPT !.caller = "idle"]
       ELSE /\ pc' = [pc EXCEPT !.caller = "join"]
            /\ UNCHANGED ret
    /\ UNCHANGED <<args, obj, requests, sheetVars, featureVars>>

\* result: self._worker.join() returns once the worker thread has ended
ResultJoin ==
    /\ pc.caller = "join"
    /\ pc.worker = "done"
    /\ pc' = [pc EXCEPT !.caller = "return"]
    /\ UNCHANGED <<obj, requests, sheetVars, featureVars, callVars>>

\* result: return self._result
ResultReturn ==
    /\ pc.caller = "return"
    /\ ret' = [ret EXCEPT !["Future.result"] = Append(@, obj._result)]
    /\ pc' = [pc EXCEPT !.caller = "idle"]
    /\ UNCHANGED <<args, obj, requests, sheetVars, featureVars>>

NextFuture ==
    \/ Start
    \/ WrapperReset
    \/ WrapperResult
    \/ WrapperRaise
    \/ WrapperExcept
    \/ CallResult
    \/ ResultCheck
    \/ ResultJoin
    \/ ResultReturn

SpecFuture == InitFuture /\ [][NextFuture]_vars

\* ------------------------------------------- manage leaf command controllers

\* str.strip() of a text given as the sequence of its characters.
RECURSIVE StripLeft(_)
StripLeft(text) ==
    IF text # <<>> /\ Head(text) = " " THEN StripLeft(Tail(text)) ELSE text

RECURSIVE StripRight(_)
StripRight(text) ==
    IF text # <<>> /\ text[Len(text)] = " "
    THEN StripRight(SubSeq(text, 1, Len(text) - 1))
    ELSE text

Strip(text) == StripRight(StripLeft(text))

\* The challenges shown and the lines the user may type.
Challenges == {<<"a", "1">>, <<"f", "f">>}

UserInputs == {<<>>, <<"a", "1">>, <<" ", "a", "1", " ">>, <<"f", "f">>, <<"a", " ", "1">>}

\* ManageLeafCommandController.prompt_challenge: what it returns for a
\* challenge and a line typed by the user.
PromptChallengeReturns(challenge, user_input) ==
    ~(challenge # Strip(user_input))

\* The steps of a handler, in the order of its code.
Check(name) == [op |-> "check", name |-> name, when |-> "always"]

Principal == [op |-> "principal", name |-> "get_expected_principal", when |-> "always"]

Info(name, when) == [op |-> "info", name |-> name, when |-> when]

Prompt(when) == [op |-> "prompt", name |-> "prompt_challenge", when |-> when]

Mutation(name) == [op |-> "mutation", name |-> name, when |-> "always"]

\* The manage leaf commands.
Commands ==
    {"create user", "delete user", "set-password user", "change-password user",
     "grant user", "revoke user", "create role", "delete role", "grant role",
     "revoke role", "allowlist role", "udfs add", "udfs remove", "sindex create",
     "sindex delete"}

\* _do_default (for sindex create _do_create) of the controller of a command.
Handler(command) ==
    CASE command = "create user" ->
             <<Prompt("warn"), Principal, Mutation("admin_create_user")>>
      [] command = "delete user" ->
             <<Principal, Prompt("warn"), Mutation("admin_delete_user")>>
      [] command = "set-password user" ->
             <<Prompt("warn"), Principal, Mutation("admin_set_password")>>
      [] command = "change-password user" ->
             <<Prompt("warn"), Principal, Mutation("admin_change_password")>>
      [] command = "grant user" ->
             <<Principal, Prompt("warn"), Mutation("admin_grant_roles")>>
      [] command = "revoke user" ->
             <<Prompt("warn"), Principal, Mutation("admin_revoke_roles")>>
      [] command = "create role" ->
             <<Check("set with ns"), Prompt("warn"), Principal,
               Mutation("admin_create_role")>>
      [] command = "delete role" ->
             <<Prompt("warn"), Principal, Mutation("admin_delete_role")>>
      [] command = "grant role" ->
             <<Check("set with ns"), Principal, Mutation("admin_add_privileges"),
               Prompt("warn")>>
      [] command = "revoke role" ->
             <<Check("set with ns"), Prompt("warn"), Principal,
               Mutation("admin_delete_privileges")>>
      [] command = "allowlist role" ->
             <<Check("allow or clear"), Prompt("warn"), Principal,
               Mutation("admin_delete_whitelist or admin_set_whitelist")>>
      [] command = "udfs add" ->
             <<Check("path is a file"), Principal, Info("info_udf_list", "warn"),
               Prompt("warn and exists"), Mutation("info_udf_put")>>
      [] command = "udfs remove" ->
             <<Principal, Info("info_udf_list", "always"), Check("exists"),
               Prompt("warn"), Mutation("info_udf_remove")>>
      [] command = "sindex create" ->
             <<Prompt("warn"), Principal, Mutation("info_sindex_create")>>
      [] command = "sindex delete" ->
             <<Principal, Info("info_sindex_statistics", "warn"), Prompt("warn"),
               Mutation("info_sindex_delete")>>

\* The command is given to its controller: self.warn is set or not, the line
\* is valid or not, the named UDF exists on the server or not.
InitManage ==
    \E command \in Commands : \E warn \in BOOLEAN : \E valid \in BOOLEAN :
    \E exists \in BOOLEAN : \E challenge \in Challenges : \E user_input \in UserInputs :
        /\ args = [command |-> command, valid |-> valid, exists |-> exists,
                   challenge |-> challenge, user_input |-> user_input]
        /\ ret = <<>>
        /\ obj = [warn |-> warn]
        /\ pc = 1
        /\ requests = <<>>
        /\ stats = NoStats
        /\ nodewise = <<>>
        /\ cluster = <<>>
        /\ called = {}
        /\ decl = PlainSheet
        /\ sources = <<>>
        /\ status = "idle"
        /\ rsheet = NoSheet
        /\ prev = NoSheet
        /\ builds = 0

\* The handler is at a step of the kind op.
At(op) ==
    /\ "_do_default" \notin DOMAIN ret
    /\ pc \in DOMAIN Handler(args.command)
    /\ Handler(args.command)[pc].op = op

\* Whether the code around the step lets it run.
Runs(step) ==
    CASE step.when = "always" -> TRUE
      [] step.when = "warn" -> obj.warn
      [] step.when = "warn and exists" -> obj.warn /\ args.exists

\* A test of the line or of the server's answer that ends the handler with an
\* error message when it fails.
CheckLine ==
    /\ At("check")
    /\ IF IF Handler(args.command)[pc].name = "exists" THEN args.exists ELSE args.valid
       THEN pc' = pc + 1 /\ UNCHANGED ret
       ELSE ret' = ret @@ ("_do_default" :> PyNone) /\ UNCHANGED pc
    /\ UNCHANGED <<args, obj, requests, sheetVars, featureVars>>

\* principal_node = self.cluster.get_expected_principal()
GetExpectedPrincipal ==
    /\ At("principal")
    /\ requests' = Append(requests, Handler(args.command)[pc])
    /\ pc' = pc + 1
    /\ UNCHANGED <<obj, sheetVars, featureVars, callVars>>

\* A request that reads from the cluster: info_udf_list,
\* info_sindex_statistics.
InfoRequest ==
    /\ At("info")
    /\ requests' = IF Runs(Handler(args.command)[pc])
                   THEN Append(requests, Handler(args.command)[pc])
                   ELSE requests
    /\ pc' = pc + 1
    /\ UNCHANGED <<obj, sheetVars, featureVars, callVars>>

\* if self.warn and not self.prompt_challenge(...): return
PromptChallenge ==
    /\ At("prompt")
    /\ IF Runs(Handler(args.command)[pc])
       THEN /\ requests' = Append(requests,
                               [Handler(args.command)[pc] EXCEPT !.when =
                                   IF PromptChallengeReturns(args.challenge, args.user_input)
                                   THEN "True" ELSE "False"])
            /\ IF PromptChallengeReturns(args.challenge, args.user_input)
               THEN pc' = pc + 1 /\ UNCHANGED ret
               ELSE ret' = ret @@ ("_do_default" :> PyNone) /\ UNCHANGED pc
       ELSE pc' = pc + 1 /\ UNCHANGED <<ret, requests>>
    /\ UNCHANGED <<args, obj, sheetVars, featureVars>>

\* A request that changes the cluster: admin_*, info_udf_put, info_udf_remove,
\* info_sindex_create, info_sindex_delete.
MutatingRequest ==
    /\ At("mutation")
    /\ requests' = Append(requests, Handler(args.command)[pc])
    /\ pc' = pc + 1
    /\ UNCHANGED <<obj, sheetVars, featureVars, callVars>>

\* The end of the handler: the result is reported.
Return ==
    /\ "_do_default" \notin DOMAIN ret
    /\ pc = Len(Handler(args.command)) + 1
    /\ ret' = ret @@ ("_do_default" :> PyNone)
    /\ UNCHANGED <<args, obj, pc, requests, sheetVars, featureVars>>

NextManage ==
    \/ CheckLine
    \/ GetExpectedPrincipal
    \/ InfoRequest
    \/ PromptChallenge
    \/ MutatingRequest
    \/ Return

SpecManage == InitManage /\ [][NextManage]_vars

\* ------------------------------------------------------ claims on the sheet

Built == status = "built"

\* The entries of the field key in the records of a group.
EntriesOf(group, key) == [i \in 1..Len(group) |-> group[i][key]]

RFieldOf(key) == rsheet.rfields[CHOOSE f \in DOMAIN rsheet.rfields : rsheet.rfields[f].key = key]

\* C1: a build from sources that do not all hold the same row keys does not
\* fail, and makes one merged record for every row key of the union.
C1_EveryRowKeyMerged ==
    status # "new" =>
        /\ rsheet.raised # "KeyError"
        /\ decl.for_each = <<>> => rsheet.n_records = Cardinality(SourceKeys(sources))

\* C2: a projector that raises anything but the expected absence gives an
\* Error cell for that field of that record, and the build completes.
C2_FaultIsErrorCell ==
    (status # "new" /\ ~SourcesKeyError(sources)) =>
        /\ rsheet.raised = "None"
        /\ \A i \in DOMAIN rsheet.sources : \A f \in DOMAIN decl.fields :
               Projector(decl.fields[f], rsheet.sources[i]).o
                       \notin {"Value", "NoEntryException"}
                   => rsheet.projected[i][decl.fields[f].key] = ErrorEntry

\* The sum of the values among the entries at the positions ixs.
RECURSIVE SumAt(_, _)
SumAt(entries, ixs) ==
    IF ixs = {}
    THEN 0
    ELSE LET i == CHOOSE i \in ixs : TRUE IN entries[i].v + SumAt(entries, ixs \ {i})

Reduction(entries) ==
    LET present == {i \in DOMAIN entries : entries[i].tag = "Value"}
    IN  IF present = {} THEN NoEntry ELSE Value(SumAt(entries, present))

\* C3: for a visible field with an aggregator, the aggregate of a group is
\* Error exactly when the group holds an Error entry, and is otherwise the
\* reduction of the entries of that group that are not Absent.
C3_AggregatePerGroup ==
    Built =>
        \A f \in DOMAIN decl.fields :
            LET rfield == rsheet.rfields[f]
            IN  (decl.fields[f].aggregator # "None" /\ ~rfield.hidden) =>
                    /\ Len(rfield.aggregates) = Len(rsheet.projections_groups)
                    /\ \A g \in DOMAIN rsheet.projections_groups :
                           LET entries == EntriesOf(rsheet.projections_groups[g].group,
                                                    rfield.key)
                               poisoned == \E i \in DOMAIN entries : entries[i] = ErrorEntry
                           IN  /\ rfield.aggregates[g] = ErrorEntry <=> poisoned
                               /\ ~poisoned => rfield.aggregates[g] = Reduction(entries)

C3_Witness ==
    /\ Built
    /\ \E g, h \in DOMAIN rsheet.projections_groups :
           LET rfield == RFieldOf(<<"c">>)
           IN  /\ g # h
               /\ ~rfield.hidden
               /\ rfield.aggregates[g] = ErrorEntry
               /\ rfield.aggregates[h].tag = "Value"
               /\ \E i, j \in DOMAIN rfield.groups[h] :
                      rfield.groups[h][i] = NoEntry /\ rfield.groups[h][j].tag = "Value"

\* rec1 is before rec2, or equal to it, on the keys, the first key first.
RECURSIVE TupleLeq(_, _, _)
TupleLeq(rec1, rec2, keys) ==
    IF keys = <<>>
    THEN TRUE
    ELSE \/ EntryLess(rec1[Head(keys)], rec2[Head(keys)])
         \/ /\ rec1[Head(keys)] = rec2[Head(keys)]
            /\ TupleLeq(rec1, rec2, Tail(keys))

KeyTuple(rec, keys) == [i \in DOMAIN keys |-> rec[keys[i]]]

\* C4: with order-by keys, the records of every group are in the order of
\* one stable ascending sort on the tuple of the keys, the first key the most
\* significant: records equal on all the keys keep the order they had.
C4_StableMultiKeySort ==
    (Built /\ decl.order_bys.kind # "None") =>
        /\ Len(rsheet.projections_groups) = Len(rsheet.grouped)
        /\ \A g \in DOMAIN rsheet.grouped :
               LET before == rsheet.grouped[g].group
                   after == rsheet.projections_groups[g].group
                   keys == decl.order_bys.keys
               IN  /\ Len(after) = Len(before)
                   /\ \A i \in 1..(Len(after) - 1) : TupleLeq(after[i], after[i + 1], keys)
                   /\ \A x \in Range(before) \cup Range(after) :
                          SelectSeq(after, LAMBDA r : KeyTuple(r, keys) = KeyTuple(x, keys))
                              = SelectSeq(before, LAMBDA r : KeyTuple(r, keys) = KeyTuple(x, keys))

C4_Witness ==
    /\ Built
    /\ decl.order_bys.kind # "None"
    /\ \E g \in DOMAIN rsheet.grouped :
           LET before == rsheet.grouped[g].group
               after == rsheet.projections_groups[g].group
               keys == decl.order_bys.keys
           IN  /\ after # before
               /\ \E i \in 1..(Len(after) - 1) :
                      /\ KeyTuple(after[i], keys) = KeyTuple(after[i + 1], keys)
                      /\ after[i] # after[i + 1]
               /\ \E i \in 1..(Len(after) - 1) :
                      /\ after[i][keys[1]] = after[i + 1][keys[1]]
                      /\ after[i][keys[2]] # after[i + 1][keys[2]]

\* The number of positions of seq that hold x.
Count(seq, x) == Cardinality({i \in DOMAIN seq : seq[i] = x})

RECURSIVE CountIn(_, _)
CountIn(groups, x) ==
    IF groups = <<>> THEN 0 ELSE Count(Head(groups).group, x) + CountIn(Tail(groups), x)

RECURSIVE KeyLess(_, _)
KeyLess(key1, key2) ==
    /\ key1 # <<>>
    /\ \/ EntryLess(Head(key1), Head(key2))
       \/ Head(key1) = Head(key2) /\ KeyLess(Tail(key1), Tail(key2))

\* C5: with group-by keys, the groups partition the filtered records; the
\* records of a group agree on every group-by key and the group is keyed by
\* the tuple of those values; no two groups have the same key, and the groups
\* are in ascending order of key, the first group-by key first.
C5_GroupsPartition ==
    (Built /\ decl.group_bys.kind # "None") =>
        LET groups == rsheet.grouped
            keys == decl.group_bys.keys
        IN  /\ \A x \in Range(rsheet.filtered) :
                   CountIn(groups, x) = Count(rsheet.filtered, x)
            /\ \A g \in DOMAIN groups :
                   /\ groups[g].group # <<>>
                   /\ \A i \in DOMAIN groups[g].group :
                          /\ groups[g].group[i] \in Range(rsheet.filtered)
                          /\ KeyTuple(groups[g].group[i], keys) = groups[g].key
            /\ \A g, h \in DOMAIN groups : groups[g].key = groups[h].key => g = h
            /\ \A g \in 1..(Len(groups) - 1) : KeyLess(groups[g].key, groups[g + 1].key)

C5_Witness ==
    /\ Built
    /\ Len(decl.group_bys.keys) = 2
    /\ Len(rsheet.grouped) = 2
    /\ rsheet.grouped[1].key[1] = rsheet.grouped[2].key[1]
    /\ \E g \in DOMAIN rsheet.grouped : Len(rsheet.grouped[g].group) = 2
    /\ \E i \in 1..(Len(rsheet.filtered) - 1) :
           KeyLess(KeyTuple(rsheet.filtered[i + 1], decl.group_bys.keys),
                   KeyTuple(rsheet.filtered[i], decl.group_bys.keys))

\* C6: the where predicate is applied before grouping and aggregation: the
\* entries of every group of every prepared field are those of the projected
\* records with the key of the group that pass the predicate, in their order.
C6_FilterBeforeGrouping ==
    (Built /\ decl.where # "None" /\ decl.order_bys.kind = "None") =>
        LET passes(r) == WhereFn(decl.where, r)
            keys == decl.group_bys.keys
        IN  /\ rsheet.filtered = SelectSeq(rsheet.projected, passes)
            /\ \A x \in Range(rsheet.projected) :
                   passes(x) => \E g \in DOMAIN rsheet.projections_groups :
                                    x \in Range(rsheet.projections_groups[g].group)
            /\ \A f \in DOMAIN rsheet.rfields :
                   /\ Len(rsheet.rfields[f].groups) = Len(rsheet.projections_groups)
                   /\ \A g \in DOMAIN rsheet.projections_groups :
                          rsheet.rfields[f].groups[g]
                              = EntriesOf(SelectSeq(rsheet.projected,
                                              LAMBDA r : passes(r) /\ KeyTuple(r, keys)
                                                  = rsheet.projections_groups[g].key),
                                          rsheet.rfields[f].key)
            /\ \A g \in DOMAIN RFieldOf(<<"c">>).aggregates :
                   RFieldOf(<<"c">>).aggregates[g]
                       = Reduction(EntriesOf(SelectSeq(rsheet.projected,
                                                 LAMBDA r : passes(r) /\ KeyTuple(r, keys)
                                                     = rsheet.projections_groups[g].key),
                                             <<"c">>))

C6_Witness ==
    /\ Built
    /\ decl.where # "None"
    /\ \E i, j \in DOMAIN rsheet.projected :
           /\ ~WhereFn(decl.where, rsheet.projected[i])
           /\ rsheet.projected[i][<<"c">>] = ErrorEntry
           /\ WhereFn(decl.where, rsheet.projected[j])
           /\ rsheet.projected[i][<<"a">>] = rsheet.projected[j][<<"a">>]
    /\ \E g \in DOMAIN rsheet.projections_groups : Len(rsheet.projections_groups[g].group) = 2

\* The number of records that the expansion makes of one merged record.
RECURSIVE Expansions(_, _)
Expansions(source, for_eachs) ==
    IF for_eachs = <<>>
    THEN 0
    ELSE (IF source[Head(for_eachs)].tag = "map"
          THEN Len(source[Head(for_eachs)].items)
          ELSE 1) + Expansions(source, Tail(for_eachs))

RECURSIVE MergedRecords(_, _, _)
MergedRecords(srcs, row_keys, for_eachs) ==
    IF row_keys = {}
    THEN 0
    ELSE LET row_key == CHOOSE r \in row_keys : TRUE
             source == [s \in DOMAIN srcs |-> srcs[s][row_key]]
         IN  (IF for_eachs = <<>> THEN 1 ELSE Expansions(source, for_eachs))
             + MergedRecords(srcs, row_keys \ {row_key}, for_eachs)

\* C7: in a sheet with no group-by and no filter, every visible prepared
\* field has one group, which has as many entries as there are merged records
\* after the for-each expansion, and n_records is that number.
C7_RowsEqualRecords ==
    (Built /\ decl.group_bys.kind = "None" /\ decl.where = "None") =>
        /\ rsheet.n_records = MergedRecords(sources, SourceKeys(sources), decl.for_each)
        /\ \A f \in DOMAIN rsheet.rfields :
               ~rsheet.rfields[f].hidden =>
                   /\ Len(rsheet.rfields[f].groups) = 1
                   /\ Len(rsheet.rfields[f].groups[1]) = rsheet.n_records

C7_Witness ==
    /\ Built
    /\ decl.group_bys.kind = "None" /\ decl.where = "None"
    /\ decl.for_each # <<>>
    /\ rsheet.n_records > Cardinality(SourceKeys(sources))
    /\ Cardinality(SourceKeys(sources)) > 1
    /\ \E f \in DOMAIN rsheet.rfields : ~rsheet.rfields[f].hidden

\* C8: two builds of one declaration over the same sources give the same
\* prepared model.
C8_BuildsAgree ==
    builds = 2 =>
        /\ rsheet.projections_groups = prev.projections_groups
        /\ rsheet.rfields = prev.rfields
        /\ rsheet.visible_rfields = prev.visible_rfields

\* --------------------------------------------------- claims on the features

\* The dicts of a source category that a node's checks read.
CategoryDicts(source, node) ==
    LET service_data == DeepMergeDicts(stats.service_stats, stats.service_configs)
        ns_data == DeepMergeDicts(stats.ns_stats, stats.ns_configs)
        top == CASE source = "service" -> service_data
                 [] source = "namespaces" -> ns_data
                 [] source = "xdr_dc" -> stats.xdr_dc_stats
                 [] OTHER -> stats.security_configs
        mine == IF node \in DOMAIN top.d THEN {top.d[node]} ELSE {}
        dicts == {x \in mine : x.t = "dict"}
    IN  IF source \in {"service", "security"}
        THEN dicts
        ELSE UNION {{x.d[k] : k \in {k \in DOMAIN x.d : x.d[k].t = "dict"}} : x \in dicts}

\* The value compares true against the threshold of the check.
ComparesTrue(val, fc) ==
    IF fc.compare_val.t = "int"
    THEN \E n \in Parsable \cup {val.i} :
             /\ val = PyInt(n) \/ val = PyStr(ToString(n))
             /\ fc.compare_op = ">" /\ n > fc.compare_val.i
    ELSE fc.compare_op = "==" /\ val = fc.compare_val

InUse(feature_check, node) ==
    \E c \in DOMAIN feature_check.field_checks :
        LET fc == feature_check.field_checks[c]
        IN  \E data \in CategoryDicts(fc.source, node) :
                \E a \in DOMAIN fc.fields :
                    fc.fields[a] \in DOMAIN data.d /\ ComparesTrue(data.d[fc.fields[a]], fc)

C10_ClusterAgreesWithNodes ==
    called = {"nodewise", "cluster"} =>
        cluster = SelectSeq([f \in DOMAIN feature_checks |-> feature_checks[f].display_key],
                            LAMBDA key : \E node \in DOMAIN nodewise :
                                             nodewise[node][key] = "YES")

C10_Witness ==
    /\ called = {"nodewise", "cluster"}
    /\ Len(cluster) >= 2
    /\ \E i \in DOMAIN cluster :
           \A node \in DOMAIN nodewise : nodewise[node][cluster[i]] = "YES"
    /\ \E i \in DOMAIN cluster :
           \E node \in DOMAIN nodewise : nodewise[node][cluster[i]] = "NO"
    /\ Cardinality(DOMAIN nodewise) = 2

\* ------------------------------------------------ claims on the license data

\* The replication factors, other than 0, that the hosts of a namespace report.
ReplFactors(ns_stats) ==
    {GetValueFromDictKeys(ns_stats.items[h].v,
         <<"effective_replication_factor", "replication-factor", "repl-factor">>,
         PyInt(-1), "int").i :
        h \in {h \in DOMAIN ns_stats.items : ns_stats.items[h].v.t = "dict"}} \ {0, -1}

Manual == ret["_manually_compute_license_data_size"]

\* C11: when two hosts of a namespace report different replication factors
\* (neither 0), the manual computation raises, whatever the two values and
\* the order of the hosts.
C11_DifferentReplFactorsRaise ==
    "_manually_compute_license_data_size" \in DOMAIN ret =>
        \A n \in DOMAIN args.namespace_stats.items :
            LET ns_stats == args.namespace_stats.items[n].v
            IN  (ns_stats.t = "odict" /\ Cardinality(ReplFactors(ns_stats)) > 1)
                    => Manual.raised # "None"

\* The fatal errors of the license-data computation.
FatalLicenseErrors ==
    {"unable to determine cluster replication factor",
     "different replication factor found across nodes",
     "could not find host in build responses"}

\* C12: when the license-data computation hits a fatal error, create_summary
\* still returns a summary.
C12_LicenseFailureIsLocal ==
    "create_summary" \in DOMAIN ret =>
        LET computed == ComputeLicenseDataSize(
                            args.namespace_stats, args.license_data_usage,
                            args.server_builds, args.allow_unstable,
                            InitializeSummaryOutput(Keys(args.namespace_stats)))
        IN  computed.raised \in FatalLicenseErrors => ret["create_summary"].returned

Computed == ret["compute_license_data_size"]

InitialSummary == InitializeSummaryOutput(Keys(args.namespace_stats))

\* The agent's response, parsed on its own.
Parsed ==
    IF "license_usage" \in DOMAIN args.license_data_usage.d
    THEN ParseAgentResponse(args.license_data_usage.d["license_usage"], InitialSummary,
                            args.allow_unstable)
    ELSE [raised |-> "KeyError", ret |-> FALSE, summary_dict |-> InitialSummary]

\* The entries of the response that count: informational, and of a stable
\* cluster unless unstable ones are allowed.
AcceptedEntries ==
    SelectSeq(args.license_data_usage.d["license_usage"].d["entries"].d,
              LAMBDA e : /\ e.d["level"] = PyStr("info")
                         /\ args.allow_unstable \/ Truthy(e.d["cluster_stable"]))

RECURSIVE SumOfBytes(_)
SumOfBytes(usages) ==
    IF usages = <<>> THEN 0
    ELSE Head(usages).d["unique_data_bytes"].i + SumOfBytes(Tail(usages))

\* min, max, avg, latest and latest_time of the unique_data_bytes of usages,
\* the time of usages[i] being times[i].
AgentLicenseData(usages, times) ==
    LET bytes == {usages[i].d["unique_data_bytes"].i : i \in DOMAIN usages}
    IN  [latest |-> usages[Len(usages)].d["unique_data_bytes"].i,
         latest_time |-> times[Len(times)].d["time"].s,
         min |-> CHOOSE b \in bytes : \A c \in bytes : b <= c,
         max |-> CHOOSE b \in bytes : \A c \in bytes : b >= c,
         avg |-> Round(Rat(SumOfBytes(usages), Len(usages)))]

\* The accepted entries that hold a usage of the namespace.
EntriesOfNamespace(ns) ==
    SelectSeq(AcceptedEntries,
              LAMBDA e : "namespaces" \in DOMAIN e.d /\ ns \in DOMAIN e.d["namespaces"].d)

\* C13: the license data is the agent's exactly when there is a response that
\* parses without error and holds an accepted entry; with no response, no
\* accepted entry, or a TypeError, ValueError or KeyError while parsing, the
\* call leaves what the manual computation alone leaves.
C13_AgentOrManual ==
    "compute_license_data_size" \in DOMAIN ret =>
        LET manual == ManuallyComputeLicenseDataSize(args.namespace_stats,
                                                     args.server_builds, InitialSummary)
        IN  IF ~Truthy(args.license_data_usage)
            THEN Computed = manual
            ELSE IF Parsed.raised \in {"TypeError", "ValueError", "KeyError"}
            THEN Computed = manual
            ELSE IF Parsed.raised # "None"
            THEN TRUE
            ELSE IF AcceptedEntries = <<>>
            THEN Computed = manual
            ELSE /\ Computed.raised = "None"
                 /\ Computed.summary_dict.CLUSTER.license_data
                        = AgentLicenseData(AcceptedEntries, AcceptedEntries)
                 /\ \A ns \in DOMAIN Computed.summary_dict.NAMESPACES :
                        Computed.summary_dict.NAMESPACES[ns].license_data
                            = IF EntriesOfNamespace(ns) = <<>>
                              THEN InitialLicenseData
                              ELSE AgentLicenseData(
                                       [i \in DOMAIN EntriesOfNamespace(ns) |->
                                           EntriesOfNamespace(ns)[i].d["namespaces"].d[ns]],
                                       EntriesOfNamespace(ns))

\* A response whose first entry is accepted and whose second raises: the
\* manual value is what remains.
C13_Witness ==
    /\ "compute_license_data_size" \in DOMAIN ret
    /\ Truthy(args.license_data_usage)
    /\ Parsed.raised = "KeyError"
    /\ "license_usage" \in DOMAIN args.license_data_usage.d
    /\ args.license_data_usage.d["license_usage"].t = "dict"
    /\ Len(args.license_data_usage.d["license_usage"].d["entries"].d) = 2
    /\ args.license_data_usage.d["license_usage"].d["entries"].d[1] = EntryProfiles[1]
    /\ Computed.raised = "None"
    /\ Computed.summary_dict.CLUSTER.license_data = [latest |-> 650]

\* The number a statistic holds, or default when it is not there.
NumberOf(host_stats, key, default) ==
    IF key \notin DOMAIN host_stats.d THEN Rat(default, 1)
    ELSE IF host_stats.d[key] = PyStr("0.5") THEN Rat(1, 2)
    ELSE IF host_stats.d[key].t = "str"
    THEN Rat(CHOOSE n \in Parsable : ToString(n) = host_stats.d[key].s, 1)
    ELSE Rat(host_stats.d[key].i, 1)

\* The unique bytes of a host: pmem and device bytes over their compression
\* ratios, or the memory index and data bytes when both are zero.
UniqueBytes(host_stats) ==
    LET stored == RatAdd(RatDiv(NumberOf(host_stats, "pmem_used_bytes", 0),
                                NumberOf(host_stats, "pmem_compression_ratio", 1)),
                         RatDiv(NumberOf(host_stats, "device_used_bytes", 0),
                                NumberOf(host_stats, "device_compression_ratio", 1)))
    IN  IF stored.num # 0 THEN stored
        ELSE RatAdd(NumberOf(host_stats, "memory_used_index_bytes", 0),
                    NumberOf(host_stats, "memory_used_data_bytes", 0))

MasterObjects(host_stats) ==
    IF "master_objects" \in DOMAIN host_stats.d
    THEN NumberOf(host_stats, "master_objects", 0).num
    ELSE NumberOf(host_stats, "master-objects", 0).num

\* 35 bytes a record before the first version of the 39 bytes, 39 from it on.
Overhead(build) == IF build \in {"6.0", "6.1.0"} THEN 39 ELSE 35

\* The hosts of a namespace that count: those that report statistics and a
\* replication factor other than 0.
CountedHosts(ns_stats) ==
    SelectSeq(ns_stats.items,
              LAMBDA item : item.v.t = "dict" /\ ReplFactors(ODict(<<item>>)) # {})

RECURSIVE SumUniqueBytes(_)
SumUniqueBytes(items) ==
    IF items = <<>> THEN Rat(0, 1)
    ELSE RatAdd(UniqueBytes(Head(items).v), SumUniqueBytes(Tail(items)))

RECURSIVE SumOverhead(_)
SumOverhead(items) ==
    IF items = <<>> THEN 0
    ELSE MasterObjects(Head(items).v) * Overhead(args.server_builds.d[Head(items).k].s)
             + SumOverhead(Tail(items))

LicenseDataOf(ns_stats) ==
    IF ns_stats.t # "odict" \/ CountedHosts(ns_stats) = <<>>
    THEN 0
    ELSE Round(RatSub(RatDiv(SumUniqueBytes(CountedHosts(ns_stats)),
                             Rat(CHOOSE rf \in ReplFactors(ns_stats) : TRUE, 1)),
                      Rat(SumOverhead(CountedHosts(ns_stats)), 1)))

RECURSIVE SumLicenseData(_)
SumLicenseData(items) ==
    IF items = <<>> THEN 0
    ELSE LicenseDataOf(Head(items).v) + SumLicenseData(Tail(items))

\* C14: the manual license data of a namespace is round(sum of the unique
\* bytes of its hosts / replication factor - sum of master objects x overhead),
\* the sums taken over the hosts that report a replication factor other than
\* 0, and the cluster's is the sum over the namespaces; one host with 1000 memory
\* data bytes, replication factor 1, 10 master objects and an old build gives
\* 650.
C14_ManualLicenseData ==
    ("_manually_compute_license_data_size" \in DOMAIN ret /\ Manual.raised = "None"
         /\ \A n \in DOMAIN args.namespace_stats.items :
                LET ns_stats == args.namespace_stats.items[n].v
                IN  ns_stats.t = "odict" => Cardinality(ReplFactors(ns_stats)) <= 1) =>
        /\ \A n \in DOMAIN args.namespace_stats.items :
               Manual.summary_dict.NAMESPACES[args.namespace_stats.items[n].k]
                   .license_data.latest = LicenseDataOf(args.namespace_stats.items[n].v)
        /\ Manual.summary_dict.CLUSTER.license_data.latest
               = SumLicenseData(args.namespace_stats.items)
        /\ args.namespace_stats.items[1].v.items = << [k |-> 1, v |-> HostProfiles[1].stats] >>
               => Manual.summary_dict.NAMESPACES["test"].license_data.latest = 650

\* The hosts of a namespace that report statistics.
ReportingHosts(ns_stats) ==
    SelectSeq(ns_stats.items, LAMBDA item : item.v.t = "dict" /\ DOMAIN item.v.d # {})

\* C14 as stated, the sums taken over all the hosts that report the namespace.
C14_SumOverAllHosts ==
    ("_manually_compute_license_data_size" \in DOMAIN ret /\ Manual.raised = "None") =>
        \A n \in DOMAIN args.namespace_stats.items :
            LET ns_stats == args.namespace_stats.items[n].v
            IN  (ns_stats.t = "odict" /\ Cardinality(ReplFactors(ns_stats)) = 1) =>
                    Manual.summary_dict.NAMESPACES[args.namespace_stats.items[n].k]
                        .license_data.latest
                    = Round(RatSub(RatDiv(SumUniqueBytes(ReportingHosts(ns_stats)),
                                          Rat(CHOOSE rf \in ReplFactors(ns_stats) : TRUE, 1)),
                                   Rat(SumOverhead(ReportingHosts(ns_stats)), 1)))

\* Two hosts of replication factor 2, one on a compressed device with a new
\* build, one in memory with an old build: round(1101 / 2 - 113) = 438; and a
\* second namespace.
C14_Witness ==
    /\ "_manually_compute_license_data_size" \in DOMAIN ret
    /\ Manual.raised = "None"
    /\ Len(args.namespace_stats.items) = 2
    /\ args.namespace_stats.items[1].v.items
           = << [k |-> 1, v |-> HostProfiles[2].stats], [k |-> 2, v |-> HostProfiles[9].stats] >>
    /\ Manual.summary_dict.NAMESPACES["test"].license_data.latest = 438
    /\ Manual.summary_dict.NAMESPACES["bar"].license_data.latest = 6
    /\ Manual.summary_dict.CLUSTER.license_data.latest = 444

\* ------------------------------------------------ claims on the stop writes

\* The string is "true", whatever the case of its letters.
IsTrueAnyCase(str) ==
    /\ Len(str) = 4
    /\ str[1] \in {"t", "T"} /\ str[2] \in {"r", "R"}
    /\ str[3] \in {"u", "U"} /\ str[4] \in {"e", "E"}

\* C15: _is_stop_writes_cause is true exactly when the threshold is not 0, the
\* usage reaches it, and stop_writes is not given or is "true" in any case;
\* with threshold 0 it is false whatever the usage and stop_writes.
C15_StopWritesCause ==
    "_is_stop_writes_cause" \in DOMAIN ret =>
        /\ ret["_is_stop_writes_cause"]
               <=> /\ args.threshold # 0
                   /\ args.usage >= args.threshold
                   /\ args.stop_writes = <<"None">> \/ IsTrueAnyCase(args.stop_writes)
        /\ args.threshold = 0 => ~ret["_is_stop_writes_cause"]

\* Threshold 0, a usage above it and a server that reports TRUE: no cause.
C15_Witness ==
    /\ "_is_stop_writes_cause" \in DOMAIN ret
    /\ args.threshold = 0
    /\ args.usage > 0
    /\ args.stop_writes = <<"T", "R", "U", "E">>
    /\ ~ret["_is_stop_writes_cause"]

\* ------------------------------------------------- claims on the histograms

Percentiles == ret["_create_histogram_percentiles_output"]

\* The counts of the buckets 1..n together
CumulativeCount(hist, n) == Sum(SubSeq(hist, 1, n))

\* The first bucket, counted from 1, at which the cumulative count reaches
\* k tenths of the total.
FirstBucketReaching(hist, k) ==
    CHOOSE n \in 1..Len(hist) :
        /\ 10 * CumulativeCount(hist, n) >= k * Sum(hist)
        /\ \A m \in 1..(n - 1) : 10 * CumulativeCount(hist, m) < k * Sum(hist)

\* C16: a histogram (other than objsz) with a positive total gets 10
\* percentiles, non-decreasing, the k-th being width times the first bucket,
\* counted from 1, at which the cumulative count reaches k / 10 of the total;
\* a histogram with total 0 gets ten zeros.
C16_DecilePercentiles ==
    ("_create_histogram_percentiles_output" \in DOMAIN ret
         /\ args.histogram_name # "objsz") =>
        /\ Len(Percentiles) = 10
        /\ \A k \in 1..9 : Percentiles[k] <= Percentiles[k + 1]
        /\ \A k \in 1..10 :
               Percentiles[k] = IF Sum(args.hist) > 0
                                THEN args.width * FirstBucketReaching(args.hist, k)
                                ELSE 0

Bytewise == ret["_create_bytewise_histogram_percentiles_output"]

\* C17: the rblock size of a host is 512 when its version is in [2.7.0, 3.0.0)
\* or earlier, and 128 when it is later.
C17_RblockSize ==
    "_create_bytewise_histogram_percentiles_output" \in DOMAIN ret =>
        \A h \in DOMAIN args.host_data.items :
            args.host_data.items[h].k \in DOMAIN args.builds.d =>
                Bytewise.host_rblock_size_bytes[h]
                    = IF VersionLess(LooseVersion(args.builds.d[args.host_data.items[h].k].s),
                                     LooseVersion("3.0.0"))
                      THEN 512
                      ELSE 128

\* The width of the i-th range of start_buckets
WidthOfRange(i) == Bytewise.start_buckets[i + 1] - Bytewise.start_buckets[i]

\* C18: with more populated buckets than bucket_count, the boundaries make
\* bucket_count contiguous ranges that cover exactly the span from the lowest
\* to the highest populated bucket; the widths differ by at most 1 and no
\* wider range comes before a narrower one.
C18_CoalescedRanges ==
    ("_create_bytewise_histogram_percentiles_output" \in DOMAIN ret
         /\ Len(Bytewise.result) > args.bucket_count) =>
        LET populated == {i \in 0..(MaxByteBuckets - 1) :
                              \E h \in DOMAIN args.host_data.items :
                                  args.host_data.items[h].v.data[i + 1] > 0}
        IN  /\ Len(Bytewise.start_buckets) = args.bucket_count + 1
            /\ Bytewise.start_buckets[1] = CHOOSE i \in populated : \A j \in populated : i <= j
            /\ Bytewise.start_buckets[args.bucket_count + 1]
                   = (CHOOSE i \in populated : \A j \in populated : i >= j) + 1
            /\ \A i \in 1..args.bucket_count : WidthOfRange(i) >= 1
            /\ \A i, j \in 1..args.bucket_count :
                   /\ WidthOfRange(i) - WidthOfRange(j) <= 1
                   /\ i < j => WidthOfRange(i) <= WidthOfRange(j)

\* Two ranges of different widths over a span with an empty bucket inside,
\* populated by two hosts.
C18_Witness ==
    /\ "_create_bytewise_histogram_percentiles_output" \in DOMAIN ret
    /\ Len(Bytewise.result) > args.bucket_count
    /\ args.bucket_count = 2
    /\ Len(args.host_data.items) = 2
    /\ Bytewise.result = <<0, 1, 2, 4>>
    /\ Bytewise.start_buckets = <<0, 2, 5>>

\* The records the claims expect of the merged record of row_key when key is
\* the only expansion key.
ExpectedOfRow(row_key, key) ==
    LET parent == [s \in DOMAIN sources |-> sources[s][row_key]]
    IN  IF parent[key].tag = "map"
        THEN [j \in 1..Len(parent[key].items) |->
                 [parent EXCEPT ![key] = [tag |-> "item", out |-> parent[key].items[j].out,
                                          k |-> parent[key].items[j].k, items |-> <<>>]]]
        ELSE << [parent EXCEPT ![key] = ErrorEntrySource] >>

\* C19: with one expansion key, a merged record whose value there is a mapping
\* of n entries gives n records, copies of it with the key bound to each
\* (sub_key, sub_value) pair once; one whose value is an error or not a
\* mapping gives one record with the key bound to the error marker; n_records
\* is the number of expanded records.
C19_ForEachOneKey ==
    (status # "new" /\ Len(decl.for_each) = 1) =>
        /\ \E keyOrder \in Orders(SourceKeys(sources)) :
               rsheet.sources
                   = Flatten([i \in 1..Len(keyOrder) |->
                                 ExpectedOfRow(keyOrder[i], decl.for_each[1])])
        /\ rsheet.n_records = Len(rsheet.sources)

\* A mapping of two entries and an error, expanded into three records.
C19_Witness ==
    /\ status # "new"
    /\ Len(decl.for_each) = 1
    /\ rsheet.n_records = 3
    /\ \E r \in SourceKeys(sources) : Len(sources[decl.for_each[1]][r].items) = 2
    /\ \E r \in SourceKeys(sources) : sources[decl.for_each[1]][r].tag = "scalar"
    /\ \E i \in DOMAIN rsheet.sources : rsheet.sources[i][decl.for_each[1]].tag = "ErrorEntry"

\* C20: with two expansion keys, a merged record whose values there are
\* mappings of m and n entries gives m x n records, each with both keys bound
\* to a (sub_key, sub_value) pair.
C20_ForEachCompounds ==
    (status # "new" /\ Len(decl.for_each) = 2 /\ Cardinality(SourceKeys(sources)) = 1) =>
        LET row_key == CHOOSE r \in SourceKeys(sources) : TRUE
            first == sources[decl.for_each[1]][row_key]
            second == sources[decl.for_each[2]][row_key]
        IN  (first.tag = "map" /\ second.tag = "map") =>
                /\ Len(rsheet.sources) = Len(first.items) * Len(second.items)
                /\ \A i \in DOMAIN rsheet.sources :
                       /\ rsheet.sources[i][decl.for_each[1]].tag = "item"
                       /\ rsheet.sources[i][decl.for_each[2]].tag = "item"

\* The fields as create_rfields left them, before prepare().
Created == CreateRFields(decl, rsheet.projections_groups)

\* C21: every field, after construction and after prepare(), has as many
\* groups and as many aggregates as the sheet has groups, hidden or not, with
\* an aggregator or not; prepare() leaves the hidden flag as it was.
C21_GroupsAndAggregates ==
    Built =>
        \A f \in DOMAIN rsheet.rfields :
            /\ Created[f].n_groups = Len(rsheet.projections_groups)
            /\ Len(Created[f].groups) = Created[f].n_groups
            /\ Len(Created[f].aggregates) = Created[f].n_groups
            /\ rsheet.rfields[f].n_groups = Len(rsheet.projections_groups)
            /\ Len(rsheet.rfields[f].groups) = rsheet.rfields[f].n_groups
            /\ Len(rsheet.rfields[f].aggregates) = rsheet.rfields[f].n_groups
            /\ rsheet.rfields[f].hidden = Created[f].hidden

\* A sheet of two groups with a hidden field, a field with an aggregator and
\* a field with neither.
C21_Witness ==
    /\ Built
    /\ Len(rsheet.projections_groups) = 2
    /\ \E f \in DOMAIN rsheet.rfields : rsheet.rfields[f].hidden
    /\ \E f \in DOMAIN rsheet.rfields :
           ~rsheet.rfields[f].hidden /\ decl.fields[f].aggregator # "None"
    /\ \E f \in DOMAIN rsheet.rfields :
           ~rsheet.rfields[f].hidden /\ decl.fields[f].aggregator = "None"

\* C22: a field is hidden as its declaration says when it gives a hidden
\* value; when it gives none, the field is hidden exactly when every value of
\* every group is NoEntry, so that an ErrorEntry alone makes it visible.
C22_HiddenStatus ==
    Built =>
        \A f \in DOMAIN rsheet.rfields :
            rsheet.rfields[f].hidden
                = IF decl.fields[f].hidden # "None"
                  THEN decl.fields[f].hidden = "True"
                  ELSE \A g \in DOMAIN rsheet.projections_groups :
                           \A i \in DOMAIN rsheet.projections_groups[g].group :
                               rsheet.projections_groups[g].group[i][decl.fields[f].key]
                                   = NoEntry

\* A field with no declared hidden value whose only values are one NoEntry
\* and one ErrorEntry.
C22_Witness ==
    /\ Built
    /\ \E f \in DOMAIN rsheet.rfields :
           /\ decl.fields[f].hidden = "None"
           /\ ~rsheet.rfields[f].hidden
           /\ \E g \in DOMAIN rsheet.rfields[f].groups :
                  \E i \in DOMAIN rsheet.rfields[f].groups[g] :
                      rsheet.rfields[f].groups[g][i] = ErrorEntry
           /\ \E g \in DOMAIN rsheet.rfields[f].groups :
                  \E i \in DOMAIN rsheet.rfields[f].groups[g] :
                      rsheet.rfields[f].groups[g][i] = NoEntry
           /\ \A g \in DOMAIN rsheet.rfields[f].groups :
                  \A i \in DOMAIN rsheet.rfields[f].groups[g] :
                      rsheet.rfields[f].groups[g][i].tag # "Value"

\* The place of a key among the declared group-by keys.
GroupByIndex(key) == CHOOSE k \in DOMAIN decl.group_bys.keys : decl.group_bys.keys[k] = key

\* C23: in every sheet, a visible field without aggregator that is a group-by
\* key has, for each group, the group-by value of that group as its aggregate,
\* converted to the no-data or the error string for NoEntry and ErrorEntry.
C23_GroupedAggregate ==
    Built =>
        \A f \in DOMAIN rsheet.rfields :
            (/\ ~rsheet.rfields[f].hidden
             /\ decl.fields[f].aggregator = "None"
             /\ decl.group_bys.kind = "tuple"
             /\ \E k \in DOMAIN decl.group_bys.keys :
                    decl.group_bys.keys[k] = decl.fields[f].key) =>
                \A g \in DOMAIN rsheet.projections_groups :
                    LET value == rsheet.projections_groups[g].key[GroupByIndex(decl.fields[f].key)]
                    IN  /\ rsheet.rfields[f].aggregates[g] = value
                        /\ rsheet.rfields[f].aggregates_converted[g]
                               = CASE value = NoEntry -> decl.no_entry
                                   [] value = ErrorEntry -> decl.error_entry
                                   [] OTHER -> ToString(value.v)

\* C30: is_grouped_by of a field holds exactly when its key is one of the
\* declared group-by keys, be they declared as one string or as a tuple, and
\* is_ordered_by exactly when it is one of the declared order-by keys; a key
\* that is only a substring of a declared key is not grouped.
C30_GroupedByFlag ==
    Built =>
        \A f \in DOMAIN rsheet.rfields :
            /\ rsheet.rfields[f].is_grouped_by
                   = \E k \in DOMAIN decl.group_bys.keys :
                         decl.group_bys.keys[k] = decl.fields[f].key
            /\ rsheet.rfields[f].is_ordered_by
                   = \E k \in DOMAIN decl.order_bys.keys :
                         decl.order_bys.keys[k] = decl.fields[f].key

Rendered == ret["do_render"]

TitleIncr == args.row_title_width + args.separator

\* The running width after column i (counted from 0) under the greedy packing
\* of the claim.
RECURSIVE RunningWidth(_)
RunningWidth(i) ==
    IF i = 0
    THEN TitleIncr + args.column_widths[1]
    ELSE IF RunningWidth(i - 1) + args.column_widths[i + 1] >= args.terminal_width
    THEN TitleIncr + args.column_widths[i + 1]
    ELSE RunningWidth(i - 1) + args.column_widths[i + 1]

\* C24: with title repeat, column 0 follows the first title block; a title
\* block is placed before a later column i exactly when the running width plus
\* the width of column i reaches the terminal width, and the running width
\* restarts there; so a column that follows another column without a title
\* block leaves the running width below the terminal width; and the aggregate
\* column, when there is one, gets a title block exactly when the running
\* width plus the aggregate width reaches the terminal width.
C24_TitleRepeat ==
    ("do_render" \in DOMAIN ret /\ args.title_repeat) =>
        LET n == Len(args.column_widths)
        IN  /\ 0 \in Rendered.title_indicies
            /\ Rendered.title_indicies \subseteq (0..(n - 1)) \cup {0}
            /\ \A i \in 1..(n - 1) :
                   /\ i \in Rendered.title_indicies
                          <=> RunningWidth(i - 1) + args.column_widths[i + 1]
                                  >= args.terminal_width
                   /\ i \notin Rendered.title_indicies => RunningWidth(i) < args.terminal_width
            /\ n > 0 => Rendered.cur_pos = RunningWidth(n - 1)
            /\ args.has_aggregate =>
                   (Rendered.aggr <=> Rendered.cur_pos + args.row_aggr_width
                                          >= args.terminal_width)
            /\ Rendered.n_repeats
                   = Cardinality(Rendered.title_indicies) + (IF Rendered.aggr THEN 1 ELSE 0)

\* Three title blocks before columns, one of them before a column that exactly
\* fills the terminal width, and one before the aggregate column.
C24_Witness ==
    /\ "do_render" \in DOMAIN ret
    /\ args.title_repeat
    /\ Rendered.title_indicies = {0, 2, 3}
    /\ RunningWidth(1) + args.column_widths[3] = args.terminal_width
    /\ RunningWidth(1) > TitleIncr + args.column_widths[2]
    /\ Rendered.aggr

\* cluster_result and namespaces_result as the loop over the entries of the
\* response leaves them.
Aggregated ==
    ParseEntries([raised |-> "None", cluster_result |-> AggregateLicenseUsage,
                  namespaces_result |-> <<>>],
                 args.license_data_usage.d["license_usage"].d["entries"].d,
                 args.allow_unstable)

\* count, min, max and latest of agg are those of the bytes, in the order of
\* the entries, and its avg lies between min and max.
AggregateOf(agg, bytes) ==
    /\ agg.count = Len(bytes)
    /\ bytes # <<>> =>
           /\ ~agg.min.inf
           /\ \E i \in DOMAIN bytes : agg.min.v = bytes[i]
           /\ \A i \in DOMAIN bytes : agg.min.v <= bytes[i]
           /\ \E i \in DOMAIN bytes : agg.max = bytes[i]
           /\ \A i \in DOMAIN bytes : agg.max >= bytes[i]
           /\ agg.latest = bytes[Len(bytes)]
           /\ agg.min.v * agg.avg.den <= agg.avg.num
           /\ agg.avg.num <= agg.max * agg.avg.den

\* The namespaces named by an entry of the response.
NamespacesNamed ==
    UNION {DOMAIN AcceptedEntries[i].d["namespaces"].d :
               i \in {i \in DOMAIN AcceptedEntries : "namespaces" \in DOMAIN AcceptedEntries[i].d}}

\* C25: an entry counts exactly when its level is "info" and the cluster was
\* stable or unstable entries are allowed; after the parsing, for the cluster
\* and for every namespace, count is the number of entries that count, min
\* and max are the least and the greatest of their unique_data_bytes, latest
\* is that of the last of them, and min <= avg <= max.
C25_AgentAggregates ==
    ("_parse_agent_response" \in DOMAIN ret /\ ret["_parse_agent_response"].raised = "None") =>
        /\ AggregateOf(Aggregated.cluster_result,
                       [i \in DOMAIN AcceptedEntries |->
                           AcceptedEntries[i].d["unique_data_bytes"].i])
        /\ DOMAIN Aggregated.namespaces_result = NamespacesNamed
        /\ \A ns \in NamespacesNamed :
               AggregateOf(Aggregated.namespaces_result[ns],
                           [i \in DOMAIN EntriesOfNamespace(ns) |->
                               EntriesOfNamespace(ns)[i].d["namespaces"].d[ns]
                                   .d["unique_data_bytes"].i])
        /\ ret["_parse_agent_response"].ret = (AcceptedEntries # <<>>)
        /\ AcceptedEntries # <<>> =>
               LET data == ret["_parse_agent_response"].summary_dict.CLUSTER.license_data
               IN  /\ data.min = Aggregated.cluster_result.min.v
                   /\ data.max = Aggregated.cluster_result.max
                   /\ data.latest = Aggregated.cluster_result.latest
                   /\ data.min <= data.avg /\ data.avg <= data.max

\* Three entries that count, one of them of an unstable cluster, with the
\* greatest value first and the least in the middle, and an entry that does
\* not count.
C25_Witness ==
    /\ "_parse_agent_response" \in DOMAIN ret
    /\ ret["_parse_agent_response"].raised = "None"
    /\ args.allow_unstable
    /\ Len(args.license_data_usage.d["license_usage"].d["entries"].d) = 3
    /\ Aggregated.cluster_result.count = 3
    /\ Aggregated.cluster_result.latest = 100
    /\ Aggregated.cluster_result.min.v = 0
    /\ Aggregated.cluster_result.max = 501
    /\ Aggregated.namespaces_result["other"].count = 2

\* The displayed columns hold a key exactly when some host has a nonzero
\* coalesced count under it.
ShownIffCounted ==
    \A h \in DOMAIN Bytewise.values : \A key \in DOMAIN Bytewise.values[h] :
        key \in Range(Bytewise.columns) <=>
            \E g \in DOMAIN Bytewise.values :
                key \in DOMAIN Bytewise.values[g] /\ Bytewise.values[g][key] > 0

\* The displayed columns are one single-bucket range per populated bucket, in
\* ascending order of the bucket.
OnePerPopulated ==
    /\ Len(Bytewise.columns) = Len(Bytewise.result)
    /\ \A i \in DOMAIN Bytewise.columns :
           \E rblock_size_bytes \in {128, 512} :
               Bytewise.columns[i] =
                   GetBucketRange(Bytewise.result[i], Bytewise.result[i] + 1,
                                  Bytewise.width, rblock_size_bytes)

SameRblockSize ==
    \A h \in DOMAIN Bytewise.host_rblock_size_bytes :
        Bytewise.host_rblock_size_bytes[h] = Bytewise.rblock_size_bytes

RECURSIVE SumOfValues(_)
SumOfValues(values) ==
    IF DOMAIN values = {}
    THEN 0
    ELSE LET key == CHOOSE k \in DOMAIN values : TRUE
         IN  values[key] + SumOfValues([k \in DOMAIN values \ {key} |-> values[k]])

\* The raw counts of a host over a set of bucket indices.
RECURSIVE RawCount(_, _)
RawCount(hist, indices) ==
    IF indices = {}
    THEN 0
    ELSE LET i == CHOOSE j \in indices : TRUE
         IN  hist[i + 1] + RawCount(hist, indices \ {i})

\* C29: coalescing conserves the counts of every node: the sum of its
\* coalesced values over all ranges is the sum of its raw counts over the
\* buckets from the first to the last populated one when there are more
\* populated buckets than bucket_count, and over the populated buckets
\* otherwise.
C29_CountsConserved ==
    "_create_bytewise_histogram_percentiles_output" \in DOMAIN ret =>
        \A h \in DOMAIN args.host_data.items :
            SumOfValues(Bytewise.values[h]) =
                RawCount(args.host_data.items[h].v.data,
                         IF Len(Bytewise.result) > args.bucket_count
                         THEN Bytewise.result[1]..Bytewise.result[Len(Bytewise.result)]
                         ELSE Range(Bytewise.result))

\* Two hosts, bucket_count 2 and the first host with four populated buckets
\* from 0 to 4: two ranges, of two and three buckets, the first host with the
\* counts 2 and 2 and the second host with the counts 0 and 1.
C29_Witness ==
    /\ "_create_bytewise_histogram_percentiles_output" \in DOMAIN ret
    /\ Len(args.host_data.items) = 2
    /\ args.bucket_count = 2
    /\ args.host_data.items[1].v.data = <<1, 1, 0, 1, 1>>
    /\ Bytewise.start_buckets = <<0, 2, 5>>
    /\ SumOfValues(Bytewise.values[1]) = 4
    /\ SumOfValues(Bytewise.values[2]) = 1
    /\ \E key \in DOMAIN Bytewise.values[1] : Bytewise.values[1][key] = 2

\* The results of the calls of result() so far: a value returned or an
\* exception raised.
Results == ret["Future.result"]

\* C27: in every interleaving of the caller and the worker thread, a call of
\* result() on a Future whose function raised raises that exception; it never
\* returns a value.
C27_ResultRaises ==
    ("Future.result" \in DOMAIN ret /\ args.func.t = "exc") =>
        \A call \in DOMAIN Results : Results[call] = args.func

\* The requests sent so far that change the cluster.
Mutations == {i \in DOMAIN requests : requests[i].op = "mutation"}

\* The prompt returned true before the i-th request.
ConfirmedBefore(i) ==
    \E j \in 1..(i - 1) : requests[j].op = "prompt" /\ requests[j].when = "True"

\* C28: a manage leaf command run with warn enabled sends no mutating request
\* before prompt_challenge has returned true, and none at all when the user's
\* input is not the challenge.
C28_PromptBeforeMutation ==
    (pc \in Nat /\ obj.warn) =>
        /\ \A i \in Mutations : ConfirmedBefore(i)
        /\ args.challenge # Strip(args.user_input) => Mutations = {}

====
